---- MODULE Spec2Model ----
(***************************************************************************)
(* A model of cudup's install pipeline (src/src/fetch/installer.rs and the *)
(* helpers it calls): availability check, metadata and companion (cuDNN)   *)
(* resolution, directory creation, and the per-task download -> verify ->  *)
(* extract -> remove-staged cycle with rollback of the install directory.  *)
(*                                                                         *)
(* Text is modelled as sequences of tokens: a path is the sequence of its  *)
(* '/'-separated components, a file name the sequence of its '-'-separated *)
(* tokens, and the empty string is the empty sequence.                     *)
(***************************************************************************)
EXTENDS Integers, Sequences, FiniteSets, TLC

VARIABLES
    pc,           \* per run: the awaited call install_cuda_version is at
    version,      \* per run: the `version` argument
    available_versions, \* per run: Option of the fetched version set
    cudnn_result, \* per run: Option<(cudnn_version, cuda_variant)> of the search
    cuda_tasks,   \* per run: the collected primary tasks (a sequence)
    cudnn_task,   \* per run: Option<DownloadTask>, <<>> is None, <<t>> is Some(t)
    task_idx,     \* per run: position of the loop over cuda_tasks, then cudnn_task
    result,       \* per run: the Result install_cuda_version returned
    trace,        \* per run: the calls the run has completed, in order
    start_fs,     \* per run: the directories as the run found them
    faults,       \* how many calls the environment has made fail so far
    installDir,   \* ~/.cudup/versions/<version>: existence and extracted files
    downloadsDir, \* ~/.cudup/downloads exists
    staged,       \* the files in ~/.cudup/downloads, by file name
    now,          \* the wall clock, in seconds since the Unix epoch
    cache,        \* the files under ~/.cudup/cache, by path
    loaded,       \* the last call of a cache loader: arguments, file found, result
    saved,        \* the last call of a cache saver: arguments, file found, result
    requests,     \* the network requests discovery has sent, in order
    discovered,   \* the last call of a discovery function: arguments and result
    remote,       \* what the redist server lists and serves
    calls,        \* how many cache and discovery calls have been made
    input,        \* the argument of a function applied on its own
    output        \* what that function returned

vars == <<pc, version, available_versions, cudnn_result, cuda_tasks, cudnn_task,
          task_idx, result, trace, start_fs, faults, installDir, downloadsDir, staged,
          now, cache, loaded, saved, requests, discovered, remote, calls,
          input, output>>

\* the state of the install pipeline
installVars == <<pc, version, available_versions, cudnn_result, cuda_tasks, cudnn_task,
                 task_idx, result, trace, start_fs, faults, installDir, downloadsDir,
                 staged>>

\* the state of the cache and discovery layer
discoveryVars == <<now, cache, loaded, saved, requests, discovered, remote, calls>>

\* the argument and the return value of a function applied on its own
pureVars == <<input, output>>

\* no function has been applied on its own
NoValue == <<>>
PureIdle == input = NoValue /\ output = NoValue

\* what a function applied on its own returned
Returned(value) == [returned |-> value]

fsVars == <<installDir, downloadsDir, staged>>

\* the locals of a run that only one step assigns
locals == <<version, available_versions, cudnn_result, cuda_tasks, cudnn_task, start_fs>>

----------------------------------------------------------------------------
(* Bounds and the finite world the runs act in *)

\* the most packages a release document yields for the platform
MaxTasks == 2

\* the most calls the environment makes fail (network, disk, tar, a corrupted
\* body) over all runs; the first failure already ends a run
MaxFaults == 1

\* concurrent invocations of `cudup install`
Runs == {"r1", "r2"}

\* the versions a user asks for, each as its '.'-separated components
Versions == {<<"12", "4", "1">>, <<"12", "3", "0">>, <<"11", "8", "0">>}

\* the version set the redist index lists
IndexVersions == {<<"12", "4", "1">>, <<"12", "3", "0">>}

\* the package keys of a release document, in the order the tasks come out
PackageNames == <<"cuda_cccl", "cuda_cudart", "cuda_nvcc", "cuda_nvrtc">>

\* how a release document spells its download entries: the vendor's usual
\* layout, or a last entry with an empty relative_path and a digest in
\* upper case with surrounding blanks
MetadataStyles == {"conventional", "odd"}

Range(s) == {s[i] : i \in 1..Len(s)}

----------------------------------------------------------------------------
(* Values *)

TARGET_PLATFORM == "linux-x86_64"

CUDA_BASE_URL == "https://developer.download.nvidia.com/compute/cuda/redist"
CUDNN_BASE_URL == "https://developer.download.nvidia.com/compute/cudnn/redist"

\* config::downloads_dir() and fetch::utils::version_install_dir(v)
downloads_dir == <<"~/.cudup/downloads">>

\* a digest string: the hex text in lower case without blanks, and whether
\* the string spells it in upper case / with surrounding blanks
DigestString(hex, upper, padded) == [hex |-> hex, upper |-> upper, padded |-> padded]

CorruptHex == <<"corrupt">>
PartialHex == <<"partial">>

\* str::trim and str::to_lowercase on a digest string
trim(s) == [s EXCEPT !.padded = FALSE]
to_lowercase(s) == [s EXCEPT !.upper = FALSE]

\* format!("{:x}", hasher.finalize()) of a file's bytes
Sha256Hex(file) == DigestString(file.hex, FALSE, FALSE)

\* a file of the staging directory; NoFile is an absent one
NoFile == [exists |-> FALSE, hex |-> <<>>]
File(hex) == [exists |-> TRUE, hex |-> hex]

\* a version's install directory; NoDir is an absent one
NoDir == [exists |-> FALSE, files |-> {}]
Dir(files) == [exists |-> TRUE, files |-> files]

\* what an earlier, successful install left in a version's directory
Preinstalled == [pkg |-> "preinstalled", hex |-> <<>>, complete |-> TRUE]

\* anyhow errors: the kind, and the path the message displays (if any)
Ok == [ok |-> TRUE, kind |-> "none", path |-> <<>>]
Err(kind, path) == [ok |-> FALSE, kind |-> kind, path |-> path]
NoResult == [ok |-> FALSE, kind |-> "running", path |-> <<>>]

DownloadTask(package_name, pkg_version, base, sha256, relative_path) ==
    [package_name |-> package_name,
     version |-> pkg_version,
     url |-> [base |-> base, path |-> relative_path],
     sha256 |-> sha256,
     relative_path |-> relative_path]

\* DownloadTask::archive_name: the last '/'-component of relative_path
\* unless it is empty (split always yields at least one component)
archive_name(task) ==
    LET last == task.relative_path[Len(task.relative_path)]
    IN  IF last # <<>> THEN last ELSE <<"archive.tar.xz">>

\* the file name under which a package's archive is published
ArchiveFile(package_name, pkg_version) ==
    <<package_name, TARGET_PLATFORM>> \o pkg_version \o <<"archive.tar.xz">>

\* the i-th of the n tasks collect_cuda_download_tasks draws from the release
\* document of toolkit version v
CudaTask(v, i, n, style) ==
    LET pkg == PackageNames[i]
        odd == style = "odd" /\ i = n
    IN  DownloadTask(pkg, v, CUDA_BASE_URL,
                     DigestString(<<pkg>> \o v, odd, odd),
                     IF odd THEN << <<>> >>
                     ELSE << <<pkg>>, <<TARGET_PLATFORM>>, ArchiveFile(pkg, v) >>)

CudaTasksOf(v, n, style) == [i \in 1..n |-> CudaTask(v, i, n, style)]

\* cuda_major_version: the first '.'-component, unless it is empty
cuda_major_version(cuda_version) ==
    IF cuda_version # <<>> /\ cuda_version[1] # "" THEN <<cuda_version[1]>> ELSE <<>>

\* the companion release the compatibility search settles on
CudnnRelease == <<"9", "1", "0">>

\* collect_cudnn_download_task on that release's document: Some(task)
CudnnTaskOf(cuda_variant) ==
    LET file == <<"cudnn", TARGET_PLATFORM>> \o CudnnRelease \o cuda_variant
                    \o <<"archive.tar.xz">>
    IN  DownloadTask("cudnn", CudnnRelease, CUDNN_BASE_URL,
                     DigestString(<<"cudnn">> \o CudnnRelease \o cuda_variant, FALSE, FALSE),
                     << <<"cudnn">>, <<TARGET_PLATFORM>>, file >>)

AllTasks ==
    {CudaTask(v, i, n, style) : v \in Versions, i \in 1..MaxTasks,
                                n \in 1..MaxTasks, style \in MetadataStyles}
    \cup {CudnnTaskOf(<<"cuda">> \o cuda_major_version(v)) : v \in Versions}

\* the names a staged file can have
ArchiveNames == {archive_name(t) : t \in AllTasks}

----------------------------------------------------------------------------
(* File system and verification helpers *)

\* tokio::fs::create_dir_all on a version's directory: keeps an existing one
create_dir_all(dirs, v) ==
    IF dirs[v].exists THEN dirs ELSE [dirs EXCEPT ![v] = Dir({})]

\* a failure path that leaves the directory behind
remove_dir_all_skipped(dirs, v) == dirs

\* tokio::fs::remove_dir_all on a version's directory (the result is dropped)
remove_dir_all(dirs, v) == [dirs EXCEPT ![v] = NoDir]

\* tokio::fs::remove_file(..).await.ok() on a staged file
remove_file(files, name) == [files EXCEPT ![name] = NoFile]

\* File::create and the streamed write of a body into the staging directory
write_file(files, name, hex) == [files EXCEPT ![name] = File(hex)]

\* what tar adds to the install directory from an archive
Extracted(task, file, complete) ==
    [pkg |-> task.package_name, hex |-> file.hex, complete |-> complete]

add_files(dirs, v, fs) == [dirs EXCEPT ![v] = Dir(dirs[v].files \cup fs)]

\* a verification that accepts every file
verify_checksum_accepting(path, file, expected_sha256) == Ok

\* verify_checksum(path, expected_sha256) on the file found at path
verify_checksum(path, file, expected_sha256) ==
    LET expected == to_lowercase(trim(expected_sha256))
        actual == Sha256Hex(file)
    IN  IF ~file.exists THEN Err("Io", path)
        ELSE IF actual # expected THEN Err("ChecksumMismatch", path)
        ELSE Ok

----------------------------------------------------------------------------
(* One run of install_cuda_version *)

\* a completed call: which, for which task of the run (0: none) and
\* package, and whether it returned Ok
Event(op, idx, pkg, ok) == [op |-> op, task |-> idx, pkg |-> pkg, ok |-> ok]
RunEvent(op, ok) == Event(op, 0, "", ok)

Log(r, events) == trace' = [trace EXCEPT ![r] = trace[r] \o events]

\* the run returns res to its caller
Return(r, res) ==
    /\ pc' = [pc EXCEPT ![r] = IF res.ok THEN "done" ELSE "failed"]
    /\ result' = [result EXCEPT ![r] = res]

\* the environment makes the call at hand fail, or not
Inject(fault) ==
    /\ fault => faults < MaxFaults
    /\ faults' = faults + (IF fault THEN 1 ELSE 0)

Goto(r, label) ==
    /\ pc' = [pc EXCEPT ![r] = label]
    /\ UNCHANGED result

\* the task the loops of install_cuda_version are at: cuda_tasks in order,
\* then the cudnn task if there is one
TaskCount(r) == Len(cuda_tasks[r]) + Len(cudnn_task[r])

\* loops that take the cudnn task first
CurrentTask_cudnn_first(r) == (cudnn_task[r] \o cuda_tasks[r])[task_idx[r]]

CurrentTask(r) ==
    IF task_idx[r] <= Len(cuda_tasks[r]) THEN cuda_tasks[r][task_idx[r]]
    ELSE cudnn_task[r][task_idx[r] - Len(cuda_tasks[r])]

Active(r) == pc[r] \notin {"idle", "done", "failed", "cancelled"}

\* commands::install -> install_cuda_version(version); target_platform()?
Start(r) ==
    /\ pc[r] = "idle"
    /\ UNCHANGED <<discoveryVars, pureVars>>
    /\ \E v \in Versions, platform_ok \in BOOLEAN :
          /\ version' = [version EXCEPT ![r] = v]
          /\ start_fs' = [start_fs EXCEPT ![r] =
                 [installDir |-> installDir, downloadsDir |-> downloadsDir]]
          /\ Inject(~platform_ok)
          /\ IF platform_ok THEN Goto(r, "check_availability")
             ELSE Return(r, Err("UnsupportedPlatform", <<>>))
    /\ Log(r, <<>>)
    /\ UNCHANGED <<available_versions, cudnn_result, cuda_tasks, cudnn_task,
                   task_idx, fsVars>>

\* preconditions without the membership test
availability_check_no_membership(v, versions, dirs) ==
    IF dirs[v].exists THEN Err("AlreadyInstalled", <<>>) ELSE Ok

\* preconditions without the install_dir.exists() test
availability_check_no_exists(v, versions, dirs) ==
    IF v \notin versions THEN Err("NotAvailable", <<>>) ELSE Ok

\* the two preconditions of an install: the version is in the fetched set,
\* and its install directory does not exist
availability_check(v, versions, dirs) ==
    IF v \notin versions THEN Err("NotAvailable", <<>>)
    ELSE IF dirs[v].exists THEN Err("AlreadyInstalled", <<>>)
    ELSE Ok

\* fetch_available_cuda_versions().await?, the membership test and the
\* install_dir.exists() test
CheckAvailability(r) ==
    /\ pc[r] = "check_availability"
    /\ UNCHANGED <<discoveryVars, pureVars>>
    /\ \E fetched \in BOOLEAN, versions \in {IndexVersions} :
          /\ Inject(~fetched)
          /\ IF ~fetched
             THEN Return(r, Err("Network", <<>>)) /\ UNCHANGED available_versions
             ELSE LET checked == availability_check(version[r], versions, installDir)
                  IN  /\ available_versions' =
                             [available_versions EXCEPT ![r] = <<versions>>]
                      /\ IF checked.ok THEN Goto(r, "resolve_metadata")
                         ELSE Return(r, checked)
    /\ Log(r, <<RunEvent("check_availability", pc'[r] # "failed")>>)
    /\ UNCHANGED <<version, cudnn_result, cuda_tasks, cudnn_task, start_fs,
                   task_idx, fsVars>>

\* the same step without the is_empty test
ResolveMetadata_allowing_empty(r) ==
    /\ pc[r] = "resolve_metadata"
    /\ UNCHANGED <<discoveryVars, pureVars>>
    /\ \E fetched \in BOOLEAN, n \in 0..MaxTasks, style \in MetadataStyles :
          LET tasks == CudaTasksOf(version[r], n, style)
          IN  Inject(~fetched) /\
              IF ~fetched
              THEN Return(r, Err("Metadata", <<>>)) /\ UNCHANGED cuda_tasks
              ELSE /\ cuda_tasks' = [cuda_tasks EXCEPT ![r] = tasks]
                   /\ Goto(r, "resolve_companion")
    /\ Log(r, <<RunEvent("resolve_metadata", pc'[r] # "failed")>>)
    /\ UNCHANGED <<version, available_versions, cudnn_result, cudnn_task, start_fs,
                   task_idx, fsVars>>

\* fetch_cuda_version_metadata(version).await?, collect_cuda_download_tasks
\* and the is_empty test
ResolveMetadata(r) ==
    /\ pc[r] = "resolve_metadata"
    /\ UNCHANGED <<discoveryVars, pureVars>>
    /\ \E fetched \in BOOLEAN, n \in 0..MaxTasks, style \in MetadataStyles :
          LET tasks == CudaTasksOf(version[r], n, style)
          IN  Inject(~fetched) /\
              IF ~fetched
              THEN Return(r, Err("Metadata", <<>>)) /\ UNCHANGED cuda_tasks
              ELSE IF tasks = <<>>
              THEN Return(r, Err("NoPackages", <<>>)) /\ UNCHANGED cuda_tasks
              ELSE /\ cuda_tasks' = [cuda_tasks EXCEPT ![r] = tasks]
                   /\ Goto(r, "resolve_companion")
    /\ Log(r, <<RunEvent("resolve_metadata", pc'[r] # "failed")>>)
    /\ UNCHANGED <<version, available_versions, cudnn_result, cudnn_task, start_fs,
                   task_idx, fsVars>>

\* a match that treats None as a failure
companion_task_required(found, fetched, has_task) ==
    IF found = <<>> \/ ~fetched THEN [ok |-> FALSE, task |-> <<>>]
    ELSE [ok |-> TRUE, task |-> IF has_task THEN <<CudnnTaskOf(found[1][2])>> ELSE <<>>]

\* a match that takes a failed metadata fetch for no task
companion_task_swallowing(found, fetched, has_task) ==
    IF found = <<>> \/ ~fetched THEN [ok |-> TRUE, task |-> <<>>]
    ELSE [ok |-> TRUE, task |-> IF has_task THEN <<CudnnTaskOf(found[1][2])>> ELSE <<>>]

\* `match cudnn_result`: for Some(..) fetch_cudnn_version_metadata(..).await?
\* and collect_cudnn_download_task, for None the warning and no task
companion_task(found, fetched, has_task) ==
    IF found = <<>> THEN [ok |-> TRUE, task |-> <<>>]
    ELSE IF ~fetched THEN [ok |-> FALSE, task |-> <<>>]
    ELSE [ok |-> TRUE, task |-> IF has_task THEN <<CudnnTaskOf(found[1][2])>> ELSE <<>>]

\* find_compatible_cudnn(version).await? and the match on its result
ResolveCompanion(r) ==
    /\ pc[r] = "resolve_companion"
    /\ UNCHANGED <<discoveryVars, pureVars>>
    /\ \E search \in {"error", "none", "some"}, fetched \in BOOLEAN,
          has_task \in BOOLEAN :
          LET cuda_variant == <<"cuda">> \o cuda_major_version(version[r])
              found == IF search = "some" THEN << <<CudnnRelease, cuda_variant>> >>
                       ELSE <<>>
              resolved == companion_task(found, fetched, has_task)
          IN  Inject(search = "error" \/ (search = "some" /\ ~fetched)) /\
              IF search = "error"
              THEN /\ Return(r, Err("CompanionSearch", <<>>))
                   /\ UNCHANGED <<cudnn_result, cudnn_task>>
              ELSE /\ cudnn_result' = [cudnn_result EXCEPT ![r] = found]
                   /\ IF resolved.ok
                      THEN /\ cudnn_task' = [cudnn_task EXCEPT ![r] = resolved.task]
                           /\ Goto(r, "create_dirs")
                      ELSE /\ Return(r, Err("Metadata", <<>>))
                           /\ UNCHANGED cudnn_task
    /\ Log(r, <<RunEvent("resolve_companion", pc'[r] # "failed")>>)
    /\ UNCHANGED <<version, available_versions, cuda_tasks, start_fs, task_idx, fsVars>>

\* fs::create_dir_all(&downloads).await? and fs::create_dir_all(&install_dir).await?
CreateDirs(r) ==
    /\ pc[r] = "create_dirs"
    /\ UNCHANGED <<discoveryVars, pureVars>>
    /\ \E made_downloads \in BOOLEAN, made_install \in BOOLEAN :
          /\ Inject(~(made_downloads /\ made_install))
          /\ downloadsDir' = (downloadsDir \/ made_downloads)
          /\ IF made_downloads /\ made_install
             THEN /\ installDir' = create_dir_all(installDir, version[r])
                  /\ task_idx' = [task_idx EXCEPT ![r] = 1]
                  /\ Goto(r, "download")
             ELSE /\ Return(r, Err("Filesystem", <<>>))
                  /\ UNCHANGED <<installDir, task_idx>>
    /\ Log(r, <<RunEvent("create_dirs", pc'[r] # "failed")>>)
    /\ UNCHANGED <<locals, staged>>

\* downloads_dir.join(task.archive_name()), as the error messages display it
ArchivePath(task) == downloads_dir \o archive_name(task)

\* a loop that logs the error of a task and goes on with the next one
TaskFailed_continuing(r, e, files, dirs, events) ==
    /\ staged' = files
    /\ installDir' = dirs
    /\ Log(r, events)
    /\ IF task_idx[r] < TaskCount(r)
       THEN /\ task_idx' = [task_idx EXCEPT ![r] = task_idx[r] + 1]
            /\ Goto(r, "download")
       ELSE /\ UNCHANGED task_idx
            /\ Return(r, e)

\* `if let Err(e) = install_result`: the partial installation is removed and
\* the error returned
TaskFailed(r, e, files, dirs, events) ==
    /\ staged' = files
    /\ installDir' = remove_dir_all(dirs, version[r])
    /\ Return(r, e)
    /\ Log(r, events \o <<RunEvent("remove_dir_all", TRUE)>>)
    /\ UNCHANGED task_idx

\* process_download_task returned Ok(()): the next task, or
\* install_cuda_version returns Ok(())
TaskSucceeded(r, files, dirs, events) ==
    /\ staged' = files
    /\ installDir' = dirs
    /\ Log(r, events)
    /\ IF task_idx[r] < TaskCount(r)
       THEN /\ task_idx' = [task_idx EXCEPT ![r] = task_idx[r] + 1]
            /\ Goto(r, "download")
       ELSE /\ UNCHANGED task_idx
            /\ Return(r, Ok)

\* download_file(client, &task.url, &archive_path, ..).await?
Download(r) ==
    /\ pc[r] = "download"
    /\ UNCHANGED <<discoveryVars, pureVars>>
    /\ LET task == CurrentTask(r)
           name == archive_name(task)
           i == task_idx[r]
       IN  \E outcome \in {"no_response", "stream_error", "genuine", "corrupt"} :
             Inject(outcome # "genuine") /\
             IF outcome = "no_response"
             THEN /\ TaskFailed(r, Err("Download", <<>>), staged, installDir,
                                <<Event("download", i, task.package_name, FALSE)>>)
                  /\ UNCHANGED downloadsDir
             ELSE IF outcome = "stream_error"
             THEN /\ TaskFailed(r, Err("Download", <<>>),
                                write_file(staged, name, PartialHex), installDir,
                                <<Event("download", i, task.package_name, FALSE)>>)
                  /\ downloadsDir' = TRUE
             ELSE /\ staged' = write_file(staged, name,
                                  IF outcome = "genuine" THEN task.sha256.hex
                                  ELSE CorruptHex)
                  /\ downloadsDir' = TRUE
                  /\ Goto(r, "verify")
                  /\ Log(r, <<Event("download", i, task.package_name, TRUE)>>)
                  /\ UNCHANGED <<installDir, task_idx>>
    /\ UNCHANGED locals

\* verify_checksum(&archive_path, &task.sha256).await and its Err branch
Verify(r) ==
    /\ pc[r] = "verify"
    /\ UNCHANGED <<discoveryVars, pureVars>>
    /\ LET task == CurrentTask(r)
           name == archive_name(task)
           i == task_idx[r]
           checked == verify_checksum(ArchivePath(task), staged[name], task.sha256)
       IN  IF checked.ok
           THEN /\ Goto(r, "extract")
                /\ Log(r, <<Event("verify", i, task.package_name, TRUE)>>)
                /\ UNCHANGED <<staged, installDir, task_idx>>
           ELSE TaskFailed(r, checked, remove_file(staged, name), installDir,
                           <<Event("verify", i, task.package_name, FALSE), Event("remove_file", i, task.package_name, TRUE)>>)
    /\ UNCHANGED <<locals, downloadsDir, faults>>

\* extract_tarball(&archive_path, install_dir).await? and, after it,
\* fs::remove_file(&archive_path).await.ok()
Extract(r) ==
    /\ pc[r] = "extract"
    /\ UNCHANGED <<discoveryVars, pureVars>>
    /\ LET task == CurrentTask(r)
           name == archive_name(task)
           i == task_idx[r]
           dest == create_dir_all(installDir, version[r])
       IN  \E tar_ok \in BOOLEAN :
             Inject(~tar_ok) /\
             IF tar_ok /\ staged[name].exists
             THEN TaskSucceeded(r, remove_file(staged, name),
                                add_files(dest, version[r],
                                          {Extracted(task, staged[name], TRUE)}),
                                <<Event("extract", i, task.package_name, TRUE), Event("remove_file", i, task.package_name, TRUE)>>)
             ELSE TaskFailed(r, Err("Extraction", ArchivePath(task)), staged,
                             add_files(dest, version[r],
                                       IF staged[name].exists
                                       THEN {Extracted(task, staged[name], FALSE)}
                                       ELSE {}),
                             <<Event("extract", i, task.package_name, FALSE)>>)
    /\ UNCHANGED <<locals, downloadsDir>>

\* the future of install_cuda_version is dropped at an await: nothing more
\* of the run executes
Cancel(r) ==
    /\ Active(r)
    /\ UNCHANGED <<discoveryVars, pureVars>>
    /\ pc' = [pc EXCEPT ![r] = "cancelled"]
    /\ UNCHANGED <<locals, task_idx, result, trace, faults, fsVars>>

----------------------------------------------------------------------------
(* The cache (src/src/cache/mod.rs) *)

\* the most cache and discovery calls of one behaviour
MaxCalls == 2

\* version strings of this layer are sequences of characters
Chars == <<".", "0", "1", "2", "3", "4", "5", "6", "7", "8", "9">>

\* the position of a character in byte order
CodePoint(c) == CHOOSE i \in 1..Len(Chars) : Chars[i] = c

\* Ord for String: byte-wise lexicographic, a proper prefix is smaller
StrLess(a, b) ==
    \E k \in 1..(Len(a) + 1) :
        /\ \A j \in 1..(k - 1) : j <= Len(b) /\ a[j] = b[j]
        /\ k <= Len(b)
        /\ k <= Len(a) => CodePoint(a[k]) < CodePoint(b[k])

\* the elements of a BTreeSet<String> in iteration order
RECURSIVE btree_iter(_)
btree_iter(set) ==
    IF set = {} THEN <<>>
    ELSE LET least == CHOOSE x \in set : \A y \in set \ {x} : StrLess(x, y)
         IN  <<least>> \o btree_iter(set \ {least})

Products == {"cuda", "cudnn"}

VERSION_LIST_TTL == 24 * 60 * 60
METADATA_TTL == 7 * 24 * 60 * 60

\* a subtraction that wraps below zero (at 30 bits here)
wrapping_sub(a, b) == (a - b) % (2 ^ 30)

\* u64::saturating_sub
saturating_sub(a, b) == IF a >= b THEN a - b ELSE 0

\* is_cache_valid with `<=` in place of `<`
is_cache_valid_inclusive(cached_at, ttl, clock) == saturating_sub(clock, cached_at) <= ttl

\* is_cache_valid(cached_at, ttl), with now_timestamp() read from the clock
is_cache_valid(cached_at, ttl, clock) == saturating_sub(clock, cached_at) < ttl

\* version_list_path(product): ~/.cudup/cache/<product>_versions.json
version_list_path(product) ==
    [dir |-> <<"cache">>, file |-> <<product, "_versions", ".json">>]

\* metadata_path(product, version): ~/.cudup/cache/<product>/<version>.json
metadata_path(product, v) ==
    [dir |-> <<"cache", product>>, file |-> v \o <<".json">>]

\* a file of the cache directory: `json` is <<>> for text that is no JSON
\* document and <<doc>> for a document
NoCacheFile == [exists |-> FALSE, readable |-> FALSE, json |-> <<>>]
CacheFile(json) == [exists |-> TRUE, readable |-> TRUE, json |-> json]
Unreadable(file) == [file EXCEPT !.readable = FALSE]

\* serde_json::to_string_pretty of a CachedVersionList
CachedVersionListJson(versions, cached_at) ==
    [shape |-> "versions", versions |-> btree_iter(versions), metadata |-> <<>>,
     cached_at |-> cached_at]

\* serde_json::to_string_pretty of a CachedMetadata
CachedMetadataJson(metadata, cached_at) ==
    [shape |-> "metadata", versions |-> <<>>, metadata |-> <<metadata>>,
     cached_at |-> cached_at]

\* Result<Option<T>>: Ok(None), Ok(Some(value)) and Err
OkNone == [ok |-> TRUE, value |-> <<>>, kind |-> "none"]
OkSome(value) == [ok |-> TRUE, value |-> <<value>>, kind |-> "none"]
LoadErr(kind) == [ok |-> FALSE, value |-> <<>>, kind |-> kind]

\* serde_json::from_str::<CachedVersionList>: <<>> when the text does not
\* parse into the struct
ParseCachedVersionList(json) ==
    IF json # <<>> /\ json[1].shape = "versions"
    THEN <<[versions |-> Range(json[1].versions), cached_at |-> json[1].cached_at]>>
    ELSE <<>>

\* serde_json::from_str::<CachedMetadata>
ParseCachedMetadata(json) ==
    IF json # <<>> /\ json[1].shape = "metadata"
    THEN <<[metadata |-> json[1].metadata[1], cached_at |-> json[1].cached_at]>>
    ELSE <<>>

\* a loader that reads and parses before it looks at force_refresh
load_cached_versions_parse_first(files, product, force_refresh, clock) ==
    LET file == files[version_list_path(product)]
        cached == ParseCachedVersionList(file.json)
    IN  IF ~file.exists THEN OkNone
        ELSE IF ~file.readable THEN LoadErr("Io")
        ELSE IF cached = <<>> THEN LoadErr("Parse")
        ELSE IF force_refresh THEN OkNone
        ELSE IF is_cache_valid(cached[1].cached_at, VERSION_LIST_TTL, clock)
             THEN OkSome(cached[1].versions)
        ELSE OkNone

\* a loader that takes a file that does not parse for a miss
load_cached_versions_lenient(files, product, force_refresh, clock) ==
    LET file == files[version_list_path(product)]
        cached == ParseCachedVersionList(file.json)
    IN  IF force_refresh THEN OkNone
        ELSE IF ~file.exists THEN OkNone
        ELSE IF ~file.readable THEN LoadErr("Io")
        ELSE IF cached = <<>> THEN OkNone
        ELSE IF is_cache_valid(cached[1].cached_at, VERSION_LIST_TTL, clock)
             THEN OkSome(cached[1].versions)
        ELSE OkNone

\* a loader that takes a file it cannot read for a miss
load_cached_versions_unreadable_miss(files, product, force_refresh, clock) ==
    LET file == files[version_list_path(product)]
        cached == ParseCachedVersionList(file.json)
    IN  IF force_refresh THEN OkNone
        ELSE IF ~file.exists THEN OkNone
        ELSE IF ~file.readable THEN OkNone
        ELSE IF cached = <<>> THEN LoadErr("Parse")
        ELSE IF is_cache_valid(cached[1].cached_at, VERSION_LIST_TTL, clock)
             THEN OkSome(cached[1].versions)
        ELSE OkNone

\* load_cached_versions(product, force_refresh) on the cache directory `files`
load_cached_versions(files, product, force_refresh, clock) ==
    LET file == files[version_list_path(product)]
        cached == ParseCachedVersionList(file.json)
    IN  IF force_refresh THEN OkNone
        ELSE IF ~file.exists THEN OkNone
        ELSE IF ~file.readable THEN LoadErr("Io")
        ELSE IF cached = <<>> THEN LoadErr("Parse")
        ELSE IF is_cache_valid(cached[1].cached_at, VERSION_LIST_TTL, clock)
             THEN OkSome(cached[1].versions)
        ELSE OkNone

\* load_cached_metadata(product, version, force_refresh)
load_cached_metadata(files, product, v, force_refresh, clock) ==
    LET file == files[metadata_path(product, v)]
        cached == ParseCachedMetadata(file.json)
    IN  IF force_refresh THEN OkNone
        ELSE IF ~file.exists THEN OkNone
        ELSE IF ~file.readable THEN LoadErr("Io")
        ELSE IF cached = <<>> THEN LoadErr("Parse")
        ELSE IF is_cache_valid(cached[1].cached_at, METADATA_TTL, clock)
             THEN OkSome(cached[1].metadata)
        ELSE OkNone

\* a saver that adds the versions to the entry it finds
save_versions_merging(files, product, versions, clock) ==
    LET path == version_list_path(product)
        prior == ParseCachedVersionList(files[path].json)
        kept == IF prior = <<>> THEN {} ELSE prior[1].versions
    IN  [files EXCEPT ![path] = CacheFile(<<CachedVersionListJson(versions \cup kept, clock)>>)]

\* save_versions(product, versions): the cache directory after fs::write
save_versions(files, product, versions, clock) ==
    [files EXCEPT ![version_list_path(product)] =
        CacheFile(<<CachedVersionListJson(versions, clock)>>)]

\* save_metadata(product, version, metadata)
save_metadata(files, product, v, metadata, clock) ==
    [files EXCEPT ![metadata_path(product, v)] =
        CacheFile(<<CachedMetadataJson(metadata, clock)>>)]

\* decimal text of a number, and "a.b.c"
Digit(d) == Chars[d + 2]
RECURSIVE Decimal(_)
Decimal(n) == IF n < 10 THEN <<Digit(n)>> ELSE Decimal(n \div 10) \o <<Digit(n % 10)>>
VersionString(a, b, c) == Decimal(a) \o <<".">> \o Decimal(b) \o <<".">> \o Decimal(c)

\* the version sets that get saved
VersionSets == {{VersionString(12, 0, 0), VersionString(12, 1, 0)}}

\* the version set of an entry written before the first call
PriorVersions == {VersionString(11, 0, 0)}

\* a release document: its label and, when it has a "cudnn" package, that
\* package's cuda_variant (Option<Vec<String>>)
NoPackage == <<>>
Package(cuda_variant) == <<[cuda_variant |-> cuda_variant]>>
NoVariants == <<>>
Variants(majors) == <<majors>>
ReleaseMetadata(label, cudnn) == [release_label |-> label, cudnn |-> cudnn]

\* the versions whose release document is cached and fetched
MetadataVersions == {VersionString(12, 0, 0)}

CachePaths ==
    {version_list_path(p) : p \in Products}
        \cup {metadata_path(p, v) : p \in Products, v \in MetadataVersions}

\* the time of the first call (a time after 2020-01-01)
StartTime == 1577836800

\* how old the entries found at the first call are; -1 is an entry stamped
\* one second ahead of the clock
Ages == {-1, 0, VERSION_LIST_TTL - 1, VERSION_LIST_TTL, METADATA_TTL - 1, METADATA_TTL}

\* the times after the first call at which later calls are made
LaterTimes ==
    {StartTime + d : d \in {1, VERSION_LIST_TTL - 1, VERSION_LIST_TTL,
                            METADATA_TTL - 1, METADATA_TTL}}

NoCall ==
    [fn |-> "none", product |-> "", version |-> <<>>, force_refresh |-> FALSE,
     clock |-> 0, file |-> NoCacheFile, result |-> LoadErr("none"), call |-> 0]

\* the record of a loader or saver call that ran at the current clock
Call(fn, product, v, force_refresh, file, res) ==
    [fn |-> fn, product |-> product, version |-> v, force_refresh |-> force_refresh,
     clock |-> now, file |-> file, result |-> res, call |-> calls + 1]

Called == calls < MaxCalls /\ calls' = calls + 1

\* the clock advances, once, between two calls
Tick ==
    /\ now = StartTime
    /\ \E t \in LaterTimes : t > now /\ now' = t
    /\ UNCHANGED <<cache, loaded, saved, requests, discovered, remote, calls, installVars, pureVars>>

\* a loader that removes the entry it finds stale or unparsable
LoadVersions_evicting ==
    /\ Called
    /\ \E product \in Products, force_refresh \in BOOLEAN :
          LET res == load_cached_versions(cache, product, force_refresh, now)
              path == version_list_path(product)
          IN  /\ loaded' = Call("load_cached_versions", product, <<>>, force_refresh,
                                cache[path], res)
              /\ cache' = IF cache[path].exists /\ ~force_refresh /\ res.value = <<>>
                          THEN [cache EXCEPT ![path] = NoCacheFile] ELSE cache
    /\ UNCHANGED <<now, saved, requests, discovered, remote, installVars, pureVars>>

\* load_cached_cuda_versions / load_cached_cudnn_versions
LoadVersions ==
    /\ Called
    /\ \E product \in Products, force_refresh \in BOOLEAN :
          loaded' = Call("load_cached_versions", product, <<>>, force_refresh,
                         cache[version_list_path(product)],
                         load_cached_versions(cache, product, force_refresh, now))
    /\ UNCHANGED <<now, cache, saved, requests, discovered, remote, installVars, pureVars>>

\* load_cached_cuda_metadata / load_cached_cudnn_metadata
LoadMetadata ==
    /\ Called
    /\ \E product \in Products, v \in MetadataVersions, force_refresh \in BOOLEAN :
          loaded' = Call("load_cached_metadata", product, v, force_refresh,
                         cache[metadata_path(product, v)],
                         load_cached_metadata(cache, product, v, force_refresh, now))
    /\ UNCHANGED <<now, cache, saved, requests, discovered, remote, installVars, pureVars>>

\* save_cuda_versions / save_cudnn_versions: ensure_cache_dirs().await? and
\* fs::write(..).await? may fail, and then nothing is written
SaveVersions ==
    /\ Called
    /\ \E product \in Products, versions \in VersionSets, written \in BOOLEAN :
          /\ cache' = IF written THEN save_versions(cache, product, versions, now)
                      ELSE cache
          /\ saved' = Call("save_versions", product, <<>>, FALSE,
                           cache[version_list_path(product)],
                           IF written THEN OkSome(versions) ELSE LoadErr("Io"))
    /\ UNCHANGED <<now, loaded, requests, discovered, remote, installVars, pureVars>>

\* save_cuda_metadata / save_cudnn_metadata
SaveMetadata ==
    /\ Called
    /\ \E product \in Products, v \in MetadataVersions, written \in BOOLEAN :
          LET metadata == ReleaseMetadata(v, NoPackage)
          IN  /\ cache' = IF written THEN save_metadata(cache, product, v, metadata, now)
                          ELSE cache
              /\ saved' = Call("save_metadata", product, v, FALSE,
                               cache[metadata_path(product, v)],
                               IF written THEN OkSome(metadata) ELSE LoadErr("Io"))
    /\ UNCHANGED <<now, loaded, requests, discovered, remote, installVars, pureVars>>

----------------------------------------------------------------------------
(* Discovery (src/src/cuda/discover.rs) *)

BaseUrl(product) == IF product = "cuda" THEN CUDA_BASE_URL ELSE CUDNN_BASE_URL

\* format!("{}/", BASE_URL)
IndexUrl(product) == [base |-> BaseUrl(product), file |-> <<>>]

\* format!("{}/redistrib_{}.json", BASE_URL, version)
MetadataUrl(product, v) ==
    [base |-> BaseUrl(product), file |-> <<"redistrib_">> \o v \o <<".json">>]

\* the parts of `text` between the occurrences of `sep` (str::split)
RECURSIVE split(_, _)
split(text, sep) ==
    IF \A i \in 1..Len(text) : text[i] # sep THEN <<text>>
    ELSE LET i == CHOOSE k \in 1..Len(text) :
                      text[k] = sep /\ \A j \in 1..(k - 1) : text[j] # sep
         IN  <<SubSeq(text, 1, i - 1)>> \o split(SubSeq(text, i + 1, Len(text)), sep)

\* \d+
IsDigits(text) == text # <<>> /\ \A i \in 1..Len(text) : text[i] \in Range(Chars) \ {"."}

\* \d+\.\d+\.\d+
MatchesVersion(text) ==
    LET parts == split(text, ".")
    IN  Len(parts) = 3 /\ \A i \in 1..3 : IsDigits(parts[i])

\* the directory listing of a product: the names after "redistrib_" and
\* before ".json" of the files it links
IndexHtml(product) == btree_iter(remote.versions[product]) \o << <<"l", "a", "t", "e", "s", "t">> >>

\* parse_available_versions(html): the captures of VERSION_REGEX, collected
\* into a BTreeSet<String>
parse_available_versions(html) == {html[i] : i \in {k \in 1..Len(html) : MatchesVersion(html[k])}}

\* the record of a discovery call
Fetch(fn, product, v, res, sent) ==
    [fn |-> fn, product |-> product, version |-> v, result |-> res,
     sent |-> sent, call |-> calls + 1]

NoFetch ==
    [fn |-> "none", product |-> "", version |-> <<>>, result |-> LoadErr("none"),
     sent |-> <<>>, call |-> 0]

\* fetch_available_cuda_versions / fetch_available_cudnn_versions
FetchAvailableVersions ==
    /\ Called
    /\ \E product \in Products, responded \in BOOLEAN :
          LET sent == <<IndexUrl(product)>>
          IN  /\ requests' = requests \o sent
              /\ discovered' = Fetch("fetch_available_versions", product, <<>>,
                                  IF responded
                                  THEN OkSome(parse_available_versions(IndexHtml(product)))
                                  ELSE LoadErr("Network"), sent)
    /\ UNCHANGED <<now, cache, loaded, saved, remote, installVars, pureVars>>

\* what GET redistrib_<version>.json yields: <<>> when the request fails,
\* the status is no success or the body is no release document
ServedMetadata(product, v) ==
    IF product = "cuda"
    THEN IF v \in remote.versions["cuda"] THEN <<ReleaseMetadata(v, NoPackage)>> ELSE <<>>
    ELSE remote.metadata[v]

\* fetch_cuda_version_metadata / fetch_cudnn_version_metadata
fetch_version_metadata(product, v) ==
    IF ServedMetadata(product, v) = <<>> THEN LoadErr("Network")
    ELSE OkSome(ServedMetadata(product, v)[1])

FetchVersionMetadata ==
    /\ Called
    /\ \E product \in Products, v \in MetadataVersions \cup remote.versions["cudnn"] :
          LET sent == <<MetadataUrl(product, v)>>
          IN  /\ requests' = requests \o sent
              /\ discovered' = Fetch("fetch_version_metadata", product, v,
                                  fetch_version_metadata(product, v), sent)
    /\ UNCHANGED <<now, cache, loaded, saved, remote, installVars, pureVars>>

\* `metadata.get_package("cudnn")` has a cuda_variant that contains cuda_major
supports_cuda_major(metadata, cuda_major) ==
    /\ metadata.cudnn # NoPackage
    /\ metadata.cudnn[1].cuda_variant # NoVariants
    /\ cuda_major \in Range(metadata.cudnn[1].cuda_variant[1])

\* the loop of fetch_compatible_cudnn_versions over the versions still to
\* visit: the compatible versions found and the requests sent
RECURSIVE scan_cudnn_versions(_, _, _)
scan_cudnn_versions(todo, cuda_major, acc) ==
    IF todo = <<>> THEN acc
    ELSE LET cudnn_version == Head(todo)
             metadata == fetch_version_metadata("cudnn", cudnn_version)
             compatible == metadata.ok /\ supports_cuda_major(metadata.value[1], cuda_major)
         IN  scan_cudnn_versions(Tail(todo), cuda_major,
                 [compatible_versions |-> acc.compatible_versions
                                             \cup (IF compatible THEN {cudnn_version} ELSE {}),
                  sent |-> Append(acc.sent, MetadataUrl("cudnn", cudnn_version))])

\* fetch_compatible_cudnn_versions with `?` in place of `continue`: an
\* unfetchable release fails the whole call
fetch_compatible_cudnn_versions_fatal(cuda_version, responded) ==
    LET cuda_major == split(cuda_version, ".")[1]
        all_cudnn_versions == parse_available_versions(IndexHtml("cudnn"))
        start == [compatible_versions |-> {}, sent |-> <<IndexUrl("cudnn")>>]
        scanned == scan_cudnn_versions(btree_iter(all_cudnn_versions), cuda_major, start)
    IN  IF ~responded THEN [ok |-> FALSE, compatible_versions |-> {}, sent |-> start.sent]
        ELSE [ok |-> \A v \in all_cudnn_versions : fetch_version_metadata("cudnn", v).ok]
                 @@ scanned

\* fetch_compatible_cudnn_versions(cuda_version), given whether the request
\* for the cuDNN index is answered
fetch_compatible_cudnn_versions(cuda_version, responded) ==
    LET cuda_major == split(cuda_version, ".")[1]
        all_cudnn_versions == parse_available_versions(IndexHtml("cudnn"))
        start == [compatible_versions |-> {}, sent |-> <<IndexUrl("cudnn")>>]
    IN  IF ~responded THEN [ok |-> FALSE, compatible_versions |-> {}, sent |-> start.sent]
        ELSE [ok |-> TRUE] @@ scan_cudnn_versions(btree_iter(all_cudnn_versions),
                                                  cuda_major, start)

\* BTreeSet::iter().next_back(): <<>> for an empty set
next_back(set) == IF set = {} THEN <<>> ELSE <<btree_iter(set)[Cardinality(set)]>>

\* find_compatible_cudnn(cuda_version) -> Result<Option<(String, String)>>
find_compatible_cudnn(cuda_version, responded) ==
    LET cuda_major == split(cuda_version, ".")[1]
        found == fetch_compatible_cudnn_versions(cuda_version, responded)
        newest == next_back(found.compatible_versions)
    IN  IF ~found.ok THEN LoadErr("Network")
        ELSE IF newest # <<>> THEN OkSome(<<newest[1], <<"cuda">> \o cuda_major>>)
        ELSE OkNone

\* BTreeSet::iter().rev()
RECURSIVE rev(_)
rev(seq) == IF seq = <<>> THEN <<>> ELSE Append(rev(Tail(seq)), Head(seq))

\* the early-exit loop of find_newest_compatible_cudnn over the versions
\* still to visit: the first compatible version and the requests sent
RECURSIVE search_newest_compatible(_, _, _)
search_newest_compatible(todo, cuda_major, sent) ==
    IF todo = <<>> THEN [newest |-> <<>>, sent |-> sent]
    ELSE LET cudnn_version == Head(todo)
             metadata == fetch_version_metadata("cudnn", cudnn_version)
             asked == Append(sent, MetadataUrl("cudnn", cudnn_version))
         IN  IF metadata.ok /\ supports_cuda_major(metadata.value[1], cuda_major)
             THEN [newest |-> <<cudnn_version>>, sent |-> asked]
             ELSE search_newest_compatible(Tail(todo), cuda_major, asked)

\* find_newest_compatible_cudnn(cuda_version) -> Result<Option<String>>:
\* the available-version set of fetch_available_cudnn_versions visited from
\* its last element to its first, stopping at the first compatible version
find_newest_compatible_cudnn(cuda_version, responded) ==
    LET cuda_major == split(cuda_version, ".")[1]
        all_cudnn_versions == parse_available_versions(IndexHtml("cudnn"))
    IN  IF ~responded THEN [ok |-> FALSE, newest |-> <<>>, sent |-> <<IndexUrl("cudnn")>>]
        ELSE [ok |-> TRUE] @@ search_newest_compatible(rev(btree_iter(all_cudnn_versions)),
                                                       cuda_major, <<IndexUrl("cudnn")>>)

\* fetch::tasks::find_compatible_cudnn(cuda_version); cuda_major_version
\* gives nothing when the text before the first '.' is empty
tasks_find_compatible_cudnn(cuda_version, responded) ==
    LET first == split(cuda_version, ".")[1]
        cuda_major == IF first = <<>> THEN <<>> ELSE <<first>>
        found == find_newest_compatible_cudnn(cuda_version, responded)
    IN  IF cuda_major = <<>> THEN LoadErr("InvalidVersion")
        ELSE IF ~found.ok THEN LoadErr("Network")
        ELSE IF found.newest # <<>>
             THEN OkSome(<<found.newest[1], <<"cuda">> \o cuda_major[1]>>)
        ELSE OkNone

\* the searches of one behaviour
MaxSearches == 1

\* the toolkit versions a search is run for
SearchedVersions == {VersionString(12, 4, 1)}

FindCompatibleCudnn ==
    /\ calls < MaxSearches /\ calls' = calls + 1
    /\ \E cuda_version \in SearchedVersions, responded \in BOOLEAN :
          LET sent == fetch_compatible_cudnn_versions(cuda_version, responded).sent
          IN  /\ requests' = requests \o sent
              /\ discovered' = Fetch("find_compatible_cudnn", "cudnn", cuda_version,
                                     find_compatible_cudnn(cuda_version, responded), sent)
    /\ UNCHANGED <<now, cache, loaded, saved, remote, installVars, pureVars>>

FindNewestCompatibleCudnn ==
    /\ calls < MaxSearches /\ calls' = calls + 1
    /\ \E cuda_version \in SearchedVersions, responded \in BOOLEAN :
          LET sent == IF split(cuda_version, ".")[1] = <<>> THEN <<>>
                      ELSE find_newest_compatible_cudnn(cuda_version, responded).sent
          IN  /\ requests' = requests \o sent
              /\ discovered' = Fetch("find_newest_compatible_cudnn", "cudnn", cuda_version,
                                     tasks_find_compatible_cudnn(cuda_version, responded), sent)
    /\ UNCHANGED <<now, cache, loaded, saved, remote, installVars, pureVars>>

----------------------------------------------------------------------------
(* Task collection: fetch/tasks.rs *)

\* str::starts_with on a name written as its parts, the first being the
\* text up to and including the first '_'
starts_with(name, prefix) == name # <<>> /\ name[1] = prefix

\* str::parse::<u64>().ok() on a short text: the number of a run of digits
RECURSIVE digits_value(_)
digits_value(text) ==
    IF text = <<>> THEN 0
    ELSE 10 * digits_value(SubSeq(text, 1, Len(text) - 1)) + (CodePoint(text[Len(text)]) - 2)

\* parse_size(size_str, package_name): None when the text is no number
parse_size(size_str) == IF IsDigits(size_str) THEN <<digits_value(size_str)>> ELSE <<>>

\* DownloadInfo, PlatformInfo and PackageInfo of cuda/metadata.rs
DownloadInfo(relative_path, sha256, size) ==
    [relative_path |-> relative_path, sha256 |-> sha256, size |-> size]

Simple(info) == [kind |-> "Simple", info |-> info]
PlatformVariants(variants) == [kind |-> "Variants", variants |-> variants]

PackageInfo(pkg_version, platforms) == [version |-> pkg_version, platforms |-> platforms]

\* HashMap::get as an Option
get(map, key) == IF key \in DOMAIN map THEN <<map[key]>> ELSE <<>>

\* a loop body without the test for "release_"
collected_task_with_release(package_name, package_info, cuda_version, platform) ==
    LET platform_info == get(package_info.platforms, platform)
        variant_key == <<"cuda">> \o split(cuda_version, ".")[1]
        download_info ==
            IF platform_info = <<>> THEN <<>>
            ELSE IF platform_info[1].kind = "Simple" THEN <<platform_info[1].info>>
            ELSE get(platform_info[1].variants, variant_key)
    IN  IF download_info = <<>> THEN <<>>
        ELSE << [size |-> parse_size(download_info[1].size)]
                  @@ DownloadTask(package_name, package_info.version, CUDA_BASE_URL,
                                  download_info[1].sha256, download_info[1].relative_path) >>

\* the body of the loop of collect_cuda_download_tasks for one package:
\* the task it pushes, <<>> when it `continue`s
collected_task(package_name, package_info, cuda_version, platform) ==
    LET platform_info == get(package_info.platforms, platform)
        variant_key == <<"cuda">> \o split(cuda_version, ".")[1]
        download_info ==
            IF platform_info = <<>> THEN <<>>
            ELSE IF platform_info[1].kind = "Simple" THEN <<platform_info[1].info>>
            ELSE get(platform_info[1].variants, variant_key)
    IN  IF starts_with(package_name, "release_") \/ download_info = <<>> THEN <<>>
        ELSE << [size |-> parse_size(download_info[1].size)]
                  @@ DownloadTask(package_name, package_info.version, CUDA_BASE_URL,
                                  download_info[1].sha256, download_info[1].relative_path) >>

\* the comparator given to sort_unstable_by
compare_tasks(a, b) ==
    IF b.size # <<>> /\ a.size # <<>>
    THEN (IF b.size[1] < a.size[1] THEN "Less"
          ELSE IF b.size[1] > a.size[1] THEN "Greater" ELSE "Equal")
    ELSE IF b.size # <<>> /\ a.size = <<>> THEN "Less"
    ELSE IF b.size = <<>> /\ a.size # <<>> THEN "Greater"
    ELSE "Equal"

\* the orders sort_unstable_by can leave a set of tasks in: HashMap
\* iteration and the unstable sort fix nothing about equal elements
sorted_orders(tasks) ==
    {order \in [1..Cardinality(tasks) -> tasks] :
        /\ \A t \in tasks : \E i \in DOMAIN order : order[i] = t
        /\ \A i, j \in DOMAIN order : i < j => compare_tasks(order[i], order[j]) # "Greater"}

\* collect_cuda_download_tasks(metadata, cuda_version, platform): the lists
\* it can return
collect_cuda_download_tasks(metadata, cuda_version, platform) ==
    sorted_orders({collected_task(name, metadata.packages[name], cuda_version, platform)[1] :
                      name \in {n \in DOMAIN metadata.packages :
                                    collected_task(n, metadata.packages[n],
                                                   cuda_version, platform) # <<>>}})

----------------------------------------------------------------------------
(* Version strings: cuda/version.rs *)

\* a u32 as two 16-bit halves (the numbers of the model checker are
\* narrower than 32 bits unsigned)
Half == 2 ^ 16
U32(hi, lo) == [hi |-> hi, lo |-> lo]

\* the digit loop of u32::from_str with its checked multiply and add:
\* <<>> on overflow
RECURSIVE parse_digits(_, _)
parse_digits(text, acc) ==
    IF text = <<>> THEN <<acc>>
    ELSE LET low == acc.lo * 10 + (CodePoint(Head(text)) - 2)
             high == acc.hi * 10 + (low \div Half)
         IN  IF high >= Half THEN <<>>
             ELSE parse_digits(Tail(text), U32(high, low % Half))

\* str::parse::<u32>(): an optional '+', then one or more digits
parse_u32(text) ==
    LET body == IF text # <<>> /\ Head(text) = "+" THEN Tail(text) ELSE text
    IN  IF IsDigits(body) THEN parse_digits(body, U32(0, 0)) ELSE <<>>

VersionErr(kind, component) == [ok |-> FALSE, kind |-> kind, component |-> component]

\* a parse_component that accepts an empty part as 0
parse_component_lenient(name, part) ==
    IF part = <<>> THEN VersionErr("format", "")
    ELSE IF part[1] = <<>> THEN [ok |-> TRUE, value |-> U32(0, 0)]
    ELSE IF parse_u32(part[1]) = <<>> THEN VersionErr("not a valid number", name)
    ELSE [ok |-> TRUE, value |-> parse_u32(part[1])[1]]

\* the closure parse_component(name, part) of CudaVersion::parse, part
\* being the Option that parts.next() gave
parse_component(name, part) ==
    IF part = <<>> THEN VersionErr("format", "")
    ELSE IF parse_u32(part[1]) = <<>> THEN VersionErr("not a valid number", name)
    ELSE [ok |-> TRUE, value |-> parse_u32(part[1])[1]]

\* Iterator::next on the parts of a split, as an Option
next(parts, i) == IF i <= Len(parts) THEN <<parts[i]>> ELSE <<>>

\* CudaVersion::parse(version) -> Result<(u32, u32, u32)>
CudaVersion_parse(text) ==
    LET parts == split(text, ".")
        major == parse_component("major", next(parts, 1))
        minor == parse_component("minor", next(parts, 2))
        patch == parse_component("patch", next(parts, 3))
    IN  IF ~major.ok THEN major
        ELSE IF ~minor.ok THEN minor
        ELSE IF ~patch.ok THEN patch
        ELSE IF next(parts, 4) # <<>> THEN VersionErr("format", "")
        ELSE [ok |-> TRUE, value |-> <<major.value, minor.value, patch.value>>]

\* CudaVersion::new(version) -> Result<CudaVersion>
CudaVersion_new(text) ==
    LET parsed == CudaVersion_parse(text)
    IN  IF ~parsed.ok THEN parsed
        ELSE [ok |-> TRUE, raw |-> text, major |-> parsed.value[1],
              minor |-> parsed.value[2], patch |-> parsed.value[3]]

\* the accessors of CudaVersion
major(v) == v.major
minor(v) == v.minor
patch(v) == v.patch
as_str(v) == v.raw

NewCudaVersion ==
    /\ output = NoValue
    /\ input # NoValue /\ input.fn = "CudaVersion::new"
    /\ output' = Returned(CudaVersion_new(input.text))
    /\ UNCHANGED <<input, installVars, discoveryVars>>

----------------------------------------------------------------------------
(* Checksum verification on digests written out as text: fetch/verify.rs *)

\* the white space str::trim removes from both ends
WhiteSpace == {" ", "\n"}

\* char::to_lowercase on the characters of a hex digest
LowerOf(c) ==
    IF c = "A" THEN "a" ELSE IF c = "B" THEN "b" ELSE IF c = "C" THEN "c"
    ELSE IF c = "D" THEN "d" ELSE IF c = "E" THEN "e" ELSE IF c = "F" THEN "f" ELSE c

\* str::to_lowercase
lowercase_text(text) == [i \in DOMAIN text |-> LowerOf(text[i])]

\* str::trim_start, str::trim_end and str::trim
RECURSIVE trim_start(_)
trim_start(text) ==
    IF text # <<>> /\ Head(text) \in WhiteSpace THEN trim_start(Tail(text)) ELSE text

RECURSIVE trim_end(_)
trim_end(text) ==
    IF text # <<>> /\ text[Len(text)] \in WhiteSpace
    THEN trim_end(SubSeq(text, 1, Len(text) - 1)) ELSE text

trim_text(text) == trim_end(trim_start(text))

\* the contents a staged archive can have: the published bytes and two
\* corruptions of them
Contents == {"published", "flipped byte", "truncated"}

\* format!("{:x}", Sha256::digest(content)): lower-case hex, one text for
\* each content (shortened to its first characters)
sha256_hex(content) ==
    IF content = "published" THEN <<"d", "f", "f", "d", "6", "0">>
    ELSE IF content = "flipped byte" THEN <<"d", "f", "f", "d", "6", "1">>
    ELSE <<"0", "a", "9", "e", "1", "c">>

\* a verification that compares the expected text as it is written
verify_checksum_text_verbatim(file, expected_sha256) ==
    IF ~file.exists THEN Err("Io", <<>>)
    ELSE IF sha256_hex(file.content) # expected_sha256 THEN Err("ChecksumMismatch", <<>>)
    ELSE Ok

\* verify_checksum(path, expected_sha256) on the file found at path
verify_checksum_text(file, expected_sha256) ==
    LET expected == lowercase_text(trim_text(expected_sha256))
        actual == sha256_hex(file.content)
    IN  IF ~file.exists THEN Err("Io", <<>>)
        ELSE IF actual # expected THEN Err("ChecksumMismatch", <<>>)
        ELSE Ok

VerifyChecksum ==
    /\ output = NoValue
    /\ input # NoValue /\ input.fn = "verify_checksum"
    /\ output' = Returned(verify_checksum_text(input.file, input.expected_sha256))
    /\ UNCHANGED <<input, installVars, discoveryVars>>

\* collect_cuda_download_tasks applied to a release document
CollectCudaDownloadTasks ==
    /\ output = NoValue
    /\ input # NoValue /\ input.fn = "collect_cuda_download_tasks"
    /\ \E tasks \in collect_cuda_download_tasks(input.metadata, input.cuda_version,
                                                 input.platform) :
          output' = Returned(tasks)
    /\ UNCHANGED <<input, installVars, discoveryVars>>

----------------------------------------------------------------------------
(* Specifications *)

\* the server as the cache behaviours see it
Remote(cuda, cudnn, metadata) ==
    [versions |-> [p \in Products |-> IF p = "cuda" THEN cuda ELSE cudnn],
     metadata |-> metadata]

DefaultRemote ==
    Remote({VersionString(12, 0, 0), VersionString(12, 1, 0)},
           {VersionString(9, 1, 0)},
           [v \in {VersionString(9, 1, 0)} \cup MetadataVersions |->
               IF v = VersionString(9, 1, 0)
               THEN <<ReleaseMetadata(v, Package(Variants(<<Decimal(12)>>)))>> ELSE <<>>])

\* no cache or discovery call has been made, and the cache is empty
DiscoveryIdle ==
    /\ now = StartTime
    /\ cache = [path \in CachePaths |-> NoCacheFile]
    /\ loaded = NoCall
    /\ saved = NoCall
    /\ requests = <<>>
    /\ discovered = NoFetch
    /\ remote = DefaultRemote
    /\ calls = 0

Init ==
    /\ DiscoveryIdle
    /\ PureIdle
    /\ pc = [r \in Runs |-> "idle"]
    /\ version = [r \in Runs |-> <<>>]
    /\ available_versions = [r \in Runs |-> <<>>]
    /\ cudnn_result = [r \in Runs |-> <<>>]
    /\ cuda_tasks = [r \in Runs |-> <<>>]
    /\ cudnn_task = [r \in Runs |-> <<>>]
    /\ task_idx = [r \in Runs |-> 0]
    /\ result = [r \in Runs |-> NoResult]
    /\ trace = [r \in Runs |-> <<>>]
    /\ \E installed \in {{}} \cup {{v} : v \in Versions} :
          installDir = [v \in Versions |->
                           IF v \in installed THEN Dir({Preinstalled}) ELSE NoDir]
    /\ downloadsDir \in BOOLEAN
    /\ (\E v \in Versions : installDir[v].exists) => downloadsDir
    /\ staged = [name \in ArchiveNames |-> NoFile]
    /\ faults = 0
    /\ start_fs = [r \in Runs |->
          [installDir |-> installDir, downloadsDir |-> downloadsDir]]

Step(r) ==
    \/ CheckAvailability(r)
    \/ ResolveMetadata(r)
    \/ ResolveCompanion(r)
    \/ CreateDirs(r)
    \/ Download(r)
    \/ Verify(r)
    \/ Extract(r)

\* one invocation on its own
StartAlone(r) == (\A o \in Runs : pc[o] = "idle") /\ Start(r)

Next == \E r \in Runs : StartAlone(r) \/ Step(r)

Spec == Init /\ [][Next]_vars

\* one invocation on its own, which may be cancelled
NextCancel == \E r \in Runs : StartAlone(r) \/ Step(r) \/ Cancel(r)

SpecCancel == Init /\ [][NextCancel]_vars

\* invocations that overlap (separate processes on one ~/.cudup): the runs
\* are interchangeable, so r1 is taken to start first, and r2 while r1 runs
StartOverlapping(r) ==
    /\ r = "r1" \/ Active("r1")
    /\ Start(r)

NextConcurrent == \E r \in Runs : StartOverlapping(r) \/ Step(r)

SpecConcurrent == Init /\ [][NextConcurrent]_vars

\* no install run is started
InstallIdle ==
    /\ pc = [r \in Runs |-> "idle"]
    /\ version = [r \in Runs |-> <<>>]
    /\ available_versions = [r \in Runs |-> <<>>]
    /\ cudnn_result = [r \in Runs |-> <<>>]
    /\ cuda_tasks = [r \in Runs |-> <<>>]
    /\ cudnn_task = [r \in Runs |-> <<>>]
    /\ task_idx = [r \in Runs |-> 0]
    /\ result = [r \in Runs |-> NoResult]
    /\ trace = [r \in Runs |-> <<>>]
    /\ installDir = [v \in Versions |-> NoDir]
    /\ downloadsDir = FALSE
    /\ staged = [name \in ArchiveNames |-> NoFile]
    /\ faults = 0
    /\ start_fs = [r \in Runs |-> [installDir |-> installDir, downloadsDir |-> downloadsDir]]

\* the entry of a cache path as a first call may find it: written `age`
\* seconds before, with the payload that belongs at the path
EntryAt(path, age) ==
    IF path.dir = <<"cache">>
    THEN CacheFile(<<CachedVersionListJson(PriorVersions, StartTime - age)>>)
    ELSE CacheFile(<<CachedMetadataJson(ReleaseMetadata(<<"o", "l", "d">>, NoPackage),
                                       StartTime - age)>>)

\* a JSON document of the other kind of entry
Misplaced(path, age) ==
    EntryAt(IF path.dir = <<"cache">> THEN metadata_path("cuda", <<>>)
            ELSE version_list_path("cuda"), age)

\* the files a first call may find at a path: none, an entry of some age,
\* the same without read permission, text that is no JSON, and JSON that is
\* not the struct the loader of the path expects
FoundFiles(path) ==
    {NoCacheFile, CacheFile(<<>>)}
        \cup {EntryAt(path, age) : age \in Ages}
        \cup {Unreadable(EntryAt(path, 0))}
        \cup {Misplaced(path, age) : age \in {0, METADATA_TTL}}

\* the cache at the first call: at most one path holds a file
InitCache ==
    /\ InstallIdle
    /\ PureIdle
    /\ now = StartTime
    /\ \E path \in CachePaths : \E file \in FoundFiles(path) :
          cache = [q \in CachePaths |-> IF q = path THEN file ELSE NoCacheFile]
    /\ loaded = NoCall
    /\ saved = NoCall
    /\ requests = <<>>
    /\ discovered = NoFetch
    /\ remote = DefaultRemote
    /\ calls = 0

\* the cache functions called in any order
NextCache ==
    \/ Tick
    \/ LoadVersions
    \/ LoadMetadata
    \/ SaveVersions
    \/ SaveMetadata

SpecCache == InitCache /\ [][NextCache]_vars

\* the discovery functions called in any order, over any cache
NextDiscovery ==
    \/ Tick
    \/ FetchAvailableVersions
    \/ FetchVersionMetadata

SpecDiscovery == InitCache /\ [][NextDiscovery]_vars

\* the cuDNN releases a server may list
CudnnPool ==
    {VersionString(8, 9, 0), VersionString(9, 0, 0), VersionString(9, 1, 0),
     VersionString(9, 9, 0), VersionString(9, 10, 0)}

\* what a server does with a cuDNN release: it does not list it, lists it
\* but serves no document for it, or serves a document whose "cudnn"
\* package has this cuda_variant
ReleaseKinds == {"absent", "unfetchable", "cuda12", "cuda11", "no_variant"}

Served(v, kind) ==
    IF kind \in {"absent", "unfetchable"} THEN <<>>
    ELSE <<ReleaseMetadata(v, Package(
               IF kind = "cuda12" THEN Variants(<<Decimal(12)>>)
               ELSE IF kind = "cuda11" THEN Variants(<<Decimal(11)>>)
               ELSE NoVariants))>>

\* the servers a search may talk to
SearchRemote(kinds) ==
    Remote({VersionString(12, 4, 1), VersionString(11, 8, 0)},
           {v \in CudnnPool : kinds[v] # "absent"},
           [v \in CudnnPool \cup MetadataVersions |->
               IF v \in CudnnPool THEN Served(v, kinds[v]) ELSE <<>>])

InitSearch ==
    /\ InstallIdle
    /\ PureIdle
    /\ now = StartTime
    /\ cache = [path \in CachePaths |-> NoCacheFile]
    /\ loaded = NoCall
    /\ saved = NoCall
    /\ requests = <<>>
    /\ discovered = NoFetch
    /\ \E kinds \in [CudnnPool -> ReleaseKinds] : remote = SearchRemote(kinds)
    /\ calls = 0

\* the compatibility search against any server
NextSearch == FindCompatibleCudnn \/ FindNewestCompatibleCudnn

SpecSearch == InitSearch /\ [][NextSearch]_vars

\* the package keys of the release documents given to task collection,
\* each as the text up to its first '_' and the rest
TaskPackages == {<<"cuda_", "cccl">>, <<"cuda_", "nvcc">>}
ReleasePackage == <<"release_", "notes">>

\* what a document holds for a package: nothing, an entry for another
\* platform only, a direct download, or per-variant downloads
PackageShapes == {"absent", "no_platform", "simple", "variants", "variants_old"}

\* the size strings of a download: two numbers and a text that is none
SizeTexts == {<<"1", "0", "0", "0">>, <<"3", "0", "0">>, <<"1", ".", "5">>}

\* the download a document declares for a package (and a variant key)
DownloadOf(name, key, size) ==
    DownloadInfo(<<name, <<TARGET_PLATFORM>>, name \o key \o <<"archive.tar.xz">> >>,
                 DigestString(name \o key, FALSE, FALSE), size)

\* the entry of a package of the given shape
PackageOf(name, shape, size) ==
    PackageInfo(<<"12", "4", "127">>,
        IF shape = "no_platform"
        THEN [p \in {"windows-x86_64"} |-> Simple(DownloadOf(name, <<>>, size))]
        ELSE [p \in {TARGET_PLATFORM} |->
                 IF shape = "simple" THEN Simple(DownloadOf(name, <<>>, size))
                 ELSE PlatformVariants(
                          [key \in (IF shape = "variants"
                                     THEN {<<"cuda">> \o Decimal(11), <<"cuda">> \o Decimal(12)}
                                     ELSE {<<"cuda">> \o Decimal(11)}) |->
                              DownloadOf(name, key, size)])])

\* a release document: the packages that are not absent
CudaMetadata(shapes, sizes, with_release) ==
    [packages |->
        [name \in {n \in TaskPackages : shapes[n] # "absent"}
                     \cup (IF with_release THEN {ReleasePackage} ELSE {}) |->
            IF name = ReleasePackage
            THEN PackageOf(name, "simple", <<"1", "0", "0", "0">>)
            ELSE PackageOf(name, shapes[name], sizes[name])]]

\* the toolkit versions tasks are collected for
CollectedVersions == {VersionString(12, 4, 1), VersionString(13, 0, 0)}

TaskInputs ==
    {[fn |-> "collect_cuda_download_tasks",
      metadata |-> CudaMetadata(shapes, sizes, with_release),
      cuda_version |-> v, platform |-> TARGET_PLATFORM] :
        shapes \in [TaskPackages -> PackageShapes], sizes \in [TaskPackages -> SizeTexts],
        with_release \in BOOLEAN, v \in CollectedVersions}

InitTasks ==
    /\ InstallIdle
    /\ DiscoveryIdle
    /\ input \in TaskInputs
    /\ output = NoValue

NextTasks == CollectCudaDownloadTasks

\* task collection on any release document
SpecTasks == InitTasks /\ [][NextTasks]_vars

\* char::to_uppercase on the characters of a hex digest
UpperOf(c) ==
    IF c = "a" THEN "A" ELSE IF c = "b" THEN "B" ELSE IF c = "c" THEN "C"
    ELSE IF c = "d" THEN "D" ELSE IF c = "e" THEN "E" ELSE IF c = "f" THEN "F" ELSE c

\* how a document can spell a digest: in lower case, in upper case, or
\* with its first character in upper case
Spellings(hex) ==
    {hex, [i \in DOMAIN hex |-> UpperOf(hex[i])],
     [i \in DOMAIN hex |-> IF i = 1 THEN UpperOf(hex[i]) ELSE hex[i]]}

\* white space around a digest, or inside it
Paddings(text) ==
    {text, <<" ">> \o text, text \o <<"\n">>, <<" ", " ">> \o text \o <<" ", "\n">>,
     SubSeq(text, 1, 3) \o <<" ">> \o SubSeq(text, 4, Len(text))}

\* the expected digests of a document
ExpectedTexts ==
    UNION {Paddings(spelled) : spelled \in UNION {Spellings(sha256_hex(c)) : c \in Contents}}
    \cup {<<>>}

\* the staged file: absent, or with one of the contents
StagedFiles ==
    {[exists |-> FALSE, content |-> ""]} \cup {[exists |-> TRUE, content |-> c] : c \in Contents}

InitVerify ==
    /\ InstallIdle
    /\ DiscoveryIdle
    /\ \E file \in StagedFiles, expected \in ExpectedTexts :
          input = [fn |-> "verify_checksum", file |-> file, expected_sha256 |-> expected]
    /\ output = NoValue

NextVerify == VerifyChecksum

\* checksum verification on any staged file and expected digest
SpecVerify == InitVerify /\ [][NextVerify]_vars

\* the most '.'-separated parts of a version text
MaxParts == 4

\* the texts a part of a version is drawn from: numbers, numbers with
\* leading zeros or a sign, texts that are no number, and the numbers
\* around the largest u32
PartTexts ==
    {<<"0">>, <<"1", "2">>, <<"0", "0", "7">>, <<"+", "4">>, <<>>, <<"-", "1">>,
     <<"1", "a">>, <<" ", "1">>, <<"+">>,
     <<"4", "2", "9", "4", "9", "6", "7", "2", "9", "5">>,
     <<"4", "2", "9", "4", "9", "6", "7", "2", "9", "6">>,
     <<"0", "4", "2", "9", "4", "9", "6", "7", "2", "9", "5">>}

\* the parts of the texts that do not have three parts
FewPartTexts == {<<"1", "2">>, <<>>}

\* the parts joined by '.'
RECURSIVE join(_)
join(parts) ==
    IF Len(parts) = 1 THEN parts[1] ELSE parts[1] \o <<".">> \o join(Tail(parts))

VersionTexts ==
    {join(parts) : parts \in [1..3 -> PartTexts]}
    \cup UNION {{join(parts) : parts \in [1..n -> FewPartTexts]} : n \in (1..MaxParts) \ {3}}

InitVersion ==
    /\ InstallIdle
    /\ DiscoveryIdle
    /\ \E text \in VersionTexts : input = [fn |-> "CudaVersion::new", text |-> text]
    /\ output = NoValue

NextVersion == NewCudaVersion

\* version parsing on any text
SpecVersion == InitVersion /\ [][NextVersion]_vars

----------------------------------------------------------------------------
(* Properties *)

\* the tasks of run r in the order the run is to take them
TasksOf(r) == cuda_tasks[r] \o cudnn_task[r]

Started(r) == pc[r] # "idle"

\* run r takes a step
Steps(r) == pc'[r] # pc[r]

\* run r returns to its caller with this step
Returns(r) == pc[r] \notin {"done", "failed", "cancelled"} /\ pc'[r] \in {"done", "failed"}

StartedAbsent(r) == Started(r) /\ ~start_fs[r].installDir[version[r]].exists

Did(r, event) == event \in Range(trace[r])

ExtractedOk(r, i) == Did(r, Event("extract", i, TasksOf(r)[i].package_name, TRUE))

EveryTaskSucceeded(r) == \A i \in 1..Len(TasksOf(r)) : ExtractedOk(r, i)

InTask(r) == pc[r] \in {"download", "verify", "extract"}

C2_VerifyBeforeExtract ==
    \A r \in Runs :
        /\ \A k \in 1..Len(trace[r]) :
               trace[r][k].op = "extract" =>
                   /\ k > 1
                   /\ trace[r][k - 1] = Event("verify", trace[r][k].task, trace[r][k].pkg, TRUE)
        /\ pc[r] = "extract" =>
               /\ trace[r] # <<>>
               /\ trace[r][Len(trace[r])] =
                      Event("verify", task_idx[r], CurrentTask(r).package_name, TRUE)
        /\ Started(r) =>
               \A f \in installDir[version[r]].files \ {Preinstalled} :
                   \E i \in 1..Len(TasksOf(r)) :
                       /\ TasksOf(r)[i].package_name = f.pkg
                       /\ TasksOf(r)[i].sha256.hex = f.hex

\* a run extracted an archive, after a body that did not verify was offered
\* to no extraction
C2_Witness ==
    \E r \in Runs :
        /\ pc[r] = "done"
        /\ ExtractedOk(r, Len(TasksOf(r)))
        /\ installDir[version[r]].files # {}

\* C3: when the fetched version set does not contain the requested version,
\* the run fails with the not-available error, and up to then it has created
\* neither directory and has started no download.
C3_NotAvailable ==
    [][\A r \in Runs :
          (/\ pc[r] = "check_availability" /\ Steps(r)
           /\ available_versions'[r] # <<>>
           /\ version[r] \notin available_versions'[r][1]) =>
              /\ pc'[r] = "failed" /\ result'[r].kind = "NotAvailable"
              /\ installDir' = start_fs[r].installDir
              /\ downloadsDir' = start_fs[r].downloadsDir
              /\ staged' = staged
              /\ \A k \in 1..Len(trace'[r]) :
                     trace'[r][k].op \notin {"create_dirs", "download"}]_vars

\* a run asked for a version the index does not list and failed
C3_Witness ==
    \E r \in Runs :
        /\ pc[r] = "failed" /\ result[r].kind = "NotAvailable"
        /\ version[r] \notin available_versions[r][1]
        /\ ~installDir[version[r]].exists /\ ~downloadsDir

\* C4: when the install directory exists at the check, the run fails with
\* the already-installed error without any download or extraction, and a
\* directory that existed when a run started is never changed by that run.
C4_AlreadyInstalled ==
    [][\A r \in Runs :
          /\ (/\ pc[r] = "check_availability" /\ Steps(r)
              /\ available_versions'[r] # <<>>
              /\ version[r] \in available_versions'[r][1]
              /\ installDir[version[r]].exists) =>
                 /\ pc'[r] = "failed" /\ result'[r].kind = "AlreadyInstalled"
                 /\ UNCHANGED fsVars
                 /\ \A k \in 1..Len(trace'[r]) :
                        trace'[r][k].op \notin {"create_dirs", "download", "extract"}
          /\ (Started(r) /\ start_fs[r].installDir[version[r]].exists) =>
                 installDir'[version[r]] = start_fs[r].installDir[version[r]]]_vars

\* a run found its version installed, failed, and the installation is as it was
C4_Witness ==
    \E r \in Runs :
        /\ pc[r] = "failed" /\ result[r].kind = "AlreadyInstalled"
        /\ installDir[version[r]] = Dir({Preinstalled})

\* C5 as claimed: once the extraction step of a task has finished, with
\* success or failure, the task's staged file no longer exists.
C5_StagedFileAlwaysDeleted ==
    [][\A r \in Runs :
          (pc[r] = "extract" /\ Steps(r)) =>
              ~staged'[archive_name(CurrentTask(r))].exists]_vars

\* C6 as claimed: when the staged file's digest differs from the declared
\* one, the staged file is deleted, nothing is extracted from it, and the run
\* fails with a checksum-mismatch error whose text names the task's package.
C6_MismatchNamesPackage ==
    [][\A r \in Runs :
          (/\ pc[r] = "verify" /\ Steps(r)
           /\ staged[archive_name(CurrentTask(r))].exists
           /\ Sha256Hex(staged[archive_name(CurrentTask(r))])
                  # to_lowercase(trim(CurrentTask(r).sha256))) =>
              /\ ~staged'[archive_name(CurrentTask(r))].exists
              /\ \A k \in 1..Len(trace'[r]) :
                     ~(trace'[r][k].op = "extract" /\ trace'[r][k].task = task_idx[r])
              /\ pc'[r] = "failed" /\ result'[r].kind = "ChecksumMismatch"
              /\ CurrentTask(r).package_name \in Range(result'[r].path)]_vars

\* C7 as claimed: once a run that created its version's install directory
\* has been cancelled, the directory does not exist.
C7_CancelCleansUp ==
    \A r \in Runs :
        (/\ pc[r] = "cancelled" /\ StartedAbsent(r)
         /\ Did(r, RunEvent("create_dirs", TRUE))) =>
            ~installDir[version[r]].exists

\* C8 as claimed: two runs for the same version that both found the install
\* directory absent are never both downloading, verifying or extracting.
C8_OneInstallPerVersion ==
    \A r1, r2 \in Runs :
        (/\ r1 # r2 /\ StartedAbsent(r1) /\ StartedAbsent(r2)
         /\ version[r1] = version[r2]) =>
            ~(InTask(r1) /\ InTask(r2))

\* the calls of run r that belong to a task
IsTaskEvent(e) == e.task > 0
TaskEvents(r) == SelectSeq(trace[r], IsTaskEvent)

\* b may directly follow a among the task calls of a run
FollowsInOrder(a, b) ==
    \/ a.op = "download" /\ a.ok /\ b.op = "verify" /\ b.task = a.task
    \/ a.op = "verify" /\ a.ok /\ b.op = "extract" /\ b.task = a.task
    \/ a.op = "verify" /\ ~a.ok /\ b.op = "remove_file" /\ b.task = a.task
    \/ a.op = "extract" /\ a.ok /\ b.op = "remove_file" /\ b.task = a.task

\* C9: the task calls of a run are the download, verification, extraction and
\* staged-file removal of task 1, then those of task 2, and so on, where task
\* i is the i-th collected primary task and the companion task comes last; a
\* download starts only when every call of the task before it has completed.
C9_StrictlySequential ==
    \A r \in Runs :
        LET T == TaskEvents(r)
        IN  /\ T # <<>> => (T[1].op = "download" /\ T[1].task = 1)
            /\ \A k \in 1..Len(T) :
                   /\ T[k].task \in 1..Len(TasksOf(r))
                   /\ T[k].pkg = TasksOf(r)[T[k].task].package_name
                   /\ T[k].task <= Len(cuda_tasks[r]) =>
                          T[k].pkg = cuda_tasks[r][T[k].task].package_name
                   /\ T[k].task > Len(cuda_tasks[r]) => T[k].pkg = "cudnn"
            /\ \A k \in 1..(Len(T) - 1) :
                   \/ FollowsInOrder(T[k], T[k + 1])
                   \/ /\ T[k + 1].op = "download" /\ T[k + 1].task = T[k].task + 1
                      /\ T[k].op = "remove_file" /\ k > 1
                      /\ T[k - 1].op = "extract" /\ T[k - 1].ok
                      /\ T[k - 1].task = T[k].task

\* a run took two primary tasks and the companion task to the end
C9_Witness ==
    \E r \in Runs :
        /\ pc[r] = "done"
        /\ Len(cuda_tasks[r]) = 2 /\ cudnn_task[r] # <<>>
        /\ Len(TaskEvents(r)) = 12

\* C10: when the compatibility search returns no match, that step does not
\* fail, the run has no companion task, and it returns Ok as soon as every
\* primary task has been extracted, with the primary packages installed.
C10_NoCompanionIsNoFailure ==
    \A r \in Runs :
        (cudnn_result[r] = <<>> /\ \E ok \in BOOLEAN : Did(r, RunEvent("resolve_companion", ok))) =>
            /\ Did(r, RunEvent("resolve_companion", FALSE)) => result[r].kind = "CompanionSearch"
            /\ Did(r, RunEvent("resolve_companion", TRUE)) =>
                   /\ cudnn_task[r] = <<>>
                   /\ (\A i \in 1..Len(cuda_tasks[r]) : ExtractedOk(r, i)) =>
                          /\ pc[r] = "done" /\ result[r] = Ok
                          /\ {f.pkg : f \in installDir[version[r]].files}
                                 = {cuda_tasks[r][i].package_name : i \in 1..Len(cuda_tasks[r])}

\* a run without a companion match installed its two primary packages
C10_Witness ==
    \E r \in Runs :
        /\ pc[r] = "done" /\ cudnn_result[r] = <<>>
        /\ Len(cuda_tasks[r]) = 2
        /\ Cardinality(installDir[version[r]].files) = 2

----------------------------------------------------------------------------
(* Properties of the cache *)

IsLoad(call) == call.fn \in {"load_cached_versions", "load_cached_metadata"}

\* the entry a loader call found, as the struct it parses into (<<>> if the
\* text does not parse)
FoundEntry(call) ==
    IF call.fn = "load_cached_versions" THEN ParseCachedVersionList(call.file.json)
    ELSE ParseCachedMetadata(call.file.json)

\* the payload of an entry
Payload(call, entry) ==
    IF call.fn = "load_cached_versions" THEN entry.versions ELSE entry.metadata

\* the loader call read a file that parses
ReadEntry(call) ==
    /\ IsLoad(call) /\ ~call.force_refresh
    /\ call.file.exists /\ call.file.readable /\ FoundEntry(call) # <<>>

\* C11: a loader that reads a parsable entry serves it exactly when
\* now - cached_at < ttl, with ttl 86400 s for version lists and 604800 s for
\* per-version metadata: an entry of cached_at = now - ttl + 1 is served and
\* one of cached_at = now - ttl is a miss.
C11_FreshnessBoundary ==
    ReadEntry(loaded) =>
        LET ttl == IF loaded.fn = "load_cached_versions" THEN 86400 ELSE 604800
            entry == FoundEntry(loaded)[1]
            served == loaded.result = OkSome(Payload(loaded, entry))
        IN  /\ served <=> (loaded.clock - entry.cached_at < ttl)
            /\ ~served => loaded.result = OkNone
            /\ entry.cached_at = loaded.clock - ttl + 1 => served
            /\ entry.cached_at = loaded.clock - ttl => loaded.result = OkNone

\* a version list stamped ttl - 1 seconds before the load was served
C11_Witness ==
    /\ ReadEntry(loaded) /\ loaded.fn = "load_cached_versions"
    /\ FoundEntry(loaded)[1].cached_at = loaded.clock - 86400 + 1
    /\ loaded.result = OkSome(FoundEntry(loaded)[1].versions)

\* C12: with force_refresh set, both loaders return Ok(None), whatever file
\* is at the path: a fresh entry, a stale one, none, or one that does not
\* parse.
C12_ForceRefreshBypasses ==
    (IsLoad(loaded) /\ loaded.force_refresh) => loaded.result = OkNone

\* force_refresh was set on a path whose file does not parse
C12_Witness ==
    /\ IsLoad(loaded) /\ loaded.force_refresh
    /\ loaded.file.exists /\ loaded.file.readable /\ FoundEntry(loaded) = <<>>
    /\ loaded.result = OkNone

\* C13: without force_refresh, a loader that finds a file which does not
\* parse returns an error, neither None nor a payload, whatever the time
\* stamped in the file.
C13_CorruptIsHardError ==
    (/\ IsLoad(loaded) /\ ~loaded.force_refresh
     /\ loaded.file.exists /\ loaded.file.readable /\ FoundEntry(loaded) = <<>>) =>
        /\ ~loaded.result.ok
        /\ loaded.result.value = <<>>

\* a loader found a JSON document of the wrong struct, stamped at the time
\* of the load, and failed
C13_Witness ==
    /\ IsLoad(loaded) /\ ~loaded.force_refresh
    /\ loaded.file.exists /\ loaded.file.json # <<>> /\ FoundEntry(loaded) = <<>>
    /\ loaded.file.json[1].cached_at = loaded.clock
    /\ loaded.result = LoadErr("Parse")

\* C14 as claimed: the version-list loader returns None, and no error, when
\* force_refresh is set, the file is absent, the file cannot be read or the
\* entry is stale; it returns the cached set for every other entry.
C14_NoneCases ==
    loaded.fn = "load_cached_versions" =>
        LET entry == FoundEntry(loaded)
            stale == /\ loaded.file.readable /\ entry # <<>>
                     /\ ~(loaded.clock - entry[1].cached_at < 86400)
            none == \/ loaded.force_refresh \/ ~loaded.file.exists
                    \/ ~loaded.file.readable \/ stale
        IN  /\ none => loaded.result = OkNone
            /\ ~none => (entry # <<>> /\ loaded.result = OkSome(entry[1].versions))

\* C14 as amended: the version-list loader returns None, and no error, when
\* force_refresh is set, the file is absent or the entry is stale; it
\* returns an error when the file exists but cannot be read or does not
\* parse; it returns the cached set in every other case.
C14_NoneErrorAndHitCases ==
    loaded.fn = "load_cached_versions" =>
        LET entry == FoundEntry(loaded)
            found == ~loaded.force_refresh /\ loaded.file.exists
            failing == found /\ (~loaded.file.readable \/ entry = <<>>)
            stale == /\ found /\ ~failing
                     /\ ~(loaded.clock - entry[1].cached_at < 86400)
            none == loaded.force_refresh \/ ~loaded.file.exists \/ stale
        IN  /\ none => loaded.result = OkNone
            /\ failing => (~loaded.result.ok /\ loaded.result.value = <<>>)
            /\ (~none /\ ~failing) => loaded.result = OkSome(entry[1].versions)

\* the loader found a file it could not read and returned the error
C14_Witness ==
    /\ loaded.fn = "load_cached_versions" /\ ~loaded.force_refresh
    /\ loaded.file.exists /\ ~loaded.file.readable
    /\ loaded.result = LoadErr("Io")

\* the last successful save, when it was a save of a version list
SavedList == saved.fn = "save_versions" /\ saved.result.ok

\* C15: after save_versions(product, S) the file of the product parses to
\* exactly S, whatever it held before, stamped with the time of the save,
\* and a later load of that product without force_refresh within the ttl
\* returns exactly S.
C15_SaveLoadRoundTrip ==
    SavedList =>
        LET S == saved.result.value[1]
            entry == ParseCachedVersionList(cache[version_list_path(saved.product)].json)
        IN  /\ entry # <<>>
            /\ entry[1].versions = S
            /\ entry[1].cached_at = saved.clock
            /\ (/\ loaded.call > saved.call /\ loaded.fn = "load_cached_versions"
                /\ loaded.product = saved.product /\ ~loaded.force_refresh
                /\ loaded.clock - saved.clock < 86400) =>
                   loaded.result = OkSome(S)

\* a save replaced an entry with other versions, and a load a day minus a
\* second later returned the saved set
C15_Witness ==
    /\ SavedList /\ loaded.call > saved.call
    /\ ParseCachedVersionList(saved.file.json) # <<>>
    /\ ParseCachedVersionList(saved.file.json)[1].versions # saved.result.value[1]
    /\ loaded.fn = "load_cached_versions" /\ loaded.product = saved.product
    /\ loaded.clock = saved.clock + 86400 - 1
    /\ loaded.result = OkSome(saved.result.value[1])

\* the cache loader's answer for the key of a discovery call
CacheLoad(call, files, clock) ==
    IF call.fn = "fetch_available_versions"
    THEN load_cached_versions(files, call.product, FALSE, clock)
    ELSE load_cached_metadata(files, call.product, call.version, FALSE, clock)

\* C16 as claimed: a discovery call sends a network request only when the
\* cache load for its key is a miss, and after a successful request the
\* cache entry of the key holds the returned payload.
C16_CacheThenNetwork ==
    [][discovered'.call # discovered.call =>
          /\ CacheLoad(discovered', cache, now).value # <<>> => requests' = requests
          /\ (requests' # requests /\ discovered'.result.ok) =>
                 CacheLoad(discovered', cache', now') = discovered'.result]_vars

\* C17: a loader call leaves every cache file as it is, also when the entry
\* it finds is stale or does not parse; a cache file changes only in a save
\* that succeeds.
C17_LoadNeverRewrites ==
    [][/\ loaded'.call # loaded.call => cache' = cache
       /\ cache' # cache => (saved'.call # saved.call /\ saved'.result.ok)]_vars

\* a version-list load found a stale entry, reported a miss, and the entry
\* is still there
C17_Witness ==
    /\ ReadEntry(loaded) /\ loaded.fn = "load_cached_versions"
    /\ loaded.result = OkNone /\ loaded.call = calls
    /\ cache[version_list_path(loaded.product)] = loaded.file

----------------------------------------------------------------------------
(* Properties of the compatibility search *)

IsSearch(call) == call.fn \in {"find_compatible_cudnn", "find_newest_compatible_cudnn"}

\* the number a run of digits denotes
RECURSIVE NumericValue(_)
NumericValue(text) ==
    IF text = <<>> THEN 0
    ELSE 10 * NumericValue(SubSeq(text, 1, Len(text) - 1))
             + (CHOOSE d \in 0..9 : Digit(d) = text[Len(text)])

\* major.minor.patch of a version string, as numbers
Components(v) == [i \in 1..3 |-> NumericValue(split(v, ".")[i])]

\* release a is newer than release b
Newer(a, b) ==
    \E k \in 1..3 :
        /\ \A j \in 1..(k - 1) : Components(a)[j] = Components(b)[j]
        /\ Components(a)[k] > Components(b)[k]

\* the listed companion releases whose document can be fetched and whose
\* "cudnn" package names the major of cuda_version in cuda_variant
Satisfying(cuda_version) ==
    {v \in remote.versions["cudnn"] :
        /\ remote.metadata[v] # <<>>
        /\ remote.metadata[v][1].cudnn # <<>>
        /\ remote.metadata[v][1].cudnn[1].cuda_variant # <<>>
        /\ \E i \in DOMAIN remote.metadata[v][1].cudnn[1].cuda_variant[1] :
               remote.metadata[v][1].cudnn[1].cuda_variant[1][i] = split(cuda_version, ".")[1]}

\* the variant key of a toolkit version
VariantKey(cuda_version) == <<"cuda">> \o split(cuda_version, ".")[1]

\* C18 as claimed: a search that gets the index answers with the newest
\* listed companion release that is fetchable and names the toolkit major,
\* paired with "cuda" + major, and answers None exactly when there is no
\* such release.
C18_NewestCompatibleCompanion ==
    (IsSearch(discovered) /\ discovered.result.ok) =>
        IF Satisfying(discovered.version) = {} THEN discovered.result = OkNone
        ELSE \E w \in Satisfying(discovered.version) :
                /\ \A u \in Satisfying(discovered.version) : ~Newer(u, w)
                /\ discovered.result = OkSome(<<w, VariantKey(discovered.version)>>)

\* C19 as claimed: the search orders releases by their numbers, not by their
\* text: when 9.9.0 and 9.10.0 both satisfy the search, it answers 9.10.0.
C19_NumericOrdering ==
    (/\ IsSearch(discovered) /\ discovered.result.ok
     /\ {VersionString(9, 9, 0), VersionString(9, 10, 0)}
            \subseteq Satisfying(discovered.version))
        => /\ discovered.result.value # <<>>
           /\ discovered.result.value[1][1] = VersionString(9, 10, 0)

\* C20 as claimed: the search asks for the documents of the releases from
\* newest to oldest and stops at the first match, so it never asks for the
\* document of a release older than the one it answers with.
C20_NewestFirstEarlyExit ==
    (IsSearch(discovered) /\ discovered.result.ok /\ discovered.result.value # <<>>) =>
        LET match == discovered.result.value[1][1]
            listed == remote.versions["cudnn"]
            sent == discovered.sent
        IN  /\ \A u \in listed :
                   Newer(match, u) => MetadataUrl("cudnn", u) \notin Range(sent)
            /\ \A i, j \in DOMAIN sent : \A u, v \in listed :
                   (i < j /\ sent[i] = MetadataUrl("cudnn", u)
                          /\ sent[j] = MetadataUrl("cudnn", v)) => Newer(u, v)

\* a search asked for the document of release v
Asked(call, v) == MetadataUrl("cudnn", v) \in Range(call.sent)

\* the listed releases whose document cannot be fetched
Unfetchable == {v \in remote.versions["cudnn"] : remote.metadata[v] = <<>>}

\* C21: a release whose document cannot be fetched is skipped: once the
\* index is answered the search returns no error, it answers with a
\* satisfying release whenever one is listed, and it answers None only after
\* asking for the document of every listed release.
C21_FetchFailureIsSkipped ==
    (IsSearch(discovered) /\ Unfetchable # {}) =>
        /\ discovered.result.ok <=> Len(discovered.sent) > 1
        /\ (discovered.result.ok /\ Satisfying(discovered.version) # {}) =>
               /\ discovered.result.value # <<>>
               /\ discovered.result.value[1][1] \in Satisfying(discovered.version)
        /\ discovered.result = OkNone =>
               \A v \in remote.versions["cudnn"] : Asked(discovered, v)

\* the exhaustive search met a release it could not fetch and still
\* answered with a release enumerated after it
C21_Witness ==
    /\ discovered.fn = "find_compatible_cudnn" /\ discovered.result.ok
    /\ discovered.result.value # <<>>
    /\ \E u \in Unfetchable :
           /\ Asked(discovered, u)
           /\ StrLess(u, discovered.result.value[1][1])

----------------------------------------------------------------------------
(* Properties of task collection *)

Collected == output # NoValue /\ input.fn = "collect_cuda_download_tasks"

\* C22 as claimed: the returned list is in descending order of known size,
\* and every task of unknown size comes after every task of known size.
C22_SortedUnknownLast ==
    Collected =>
        \A i, j \in DOMAIN output.returned :
            i < j =>
                LET a == output.returned[i]
                    b == output.returned[j]
                IN  /\ (a.size # <<>> /\ b.size # <<>>) => a.size[1] >= b.size[1]
                    /\ a.size = <<>> => b.size = <<>>

\* the download of a package that the claim calls collectable: the package
\* is no "release_" key, has an entry for the platform, and the entry is a
\* direct download or has the variant "cuda" + major
Collectable(call) ==
    {name \in DOMAIN call.metadata.packages :
        LET platforms == call.metadata.packages[name].platforms
        IN  /\ name[1] # "release_"
            /\ call.platform \in DOMAIN platforms
            /\ \/ platforms[call.platform].kind = "Simple"
               \/ VariantKey(call.cuda_version) \in DOMAIN platforms[call.platform].variants}

DownloadFor(call, name) ==
    LET entry == call.metadata.packages[name].platforms[call.platform]
    IN  IF entry.kind = "Simple" THEN entry.info
        ELSE entry.variants[VariantKey(call.cuda_version)]

\* C23: the returned list has exactly one task for each collectable package
\* and none for any other; the task carries the download of the platform
\* entry (of the variant "cuda" + major for a variants entry), and its size
\* is unknown exactly when the size text is no number.
C23_OneTaskPerCollectablePackage ==
    Collected =>
        /\ Len(output.returned) = Cardinality(Collectable(input))
        /\ \A i \in DOMAIN output.returned :
               output.returned[i].package_name \in Collectable(input)
        /\ \A name \in Collectable(input) :
               \E i \in DOMAIN output.returned :
                   LET task == output.returned[i]
                       download == DownloadFor(input, name)
                   IN  /\ task.package_name = name
                       /\ task.relative_path = download.relative_path
                       /\ task.sha256 = download.sha256
                       /\ task.size = IF \A k \in DOMAIN download.size : download.size[k] # "."
                                      THEN <<NumericValue(download.size)>> ELSE <<>>

\* a document with a direct-download package, a package with variants for
\* majors 11 and 12 and a "release_" key, collected for major 13: one task
C23_Witness ==
    /\ Collected
    /\ input.cuda_version = VersionString(13, 0, 0)
    /\ DOMAIN input.metadata.packages = TaskPackages \cup {ReleasePackage}
    /\ \E a, b \in TaskPackages :
           /\ input.metadata.packages[a].platforms[TARGET_PLATFORM].kind = "Simple"
           /\ TARGET_PLATFORM \in DOMAIN input.metadata.packages[b].platforms
           /\ input.metadata.packages[b].platforms[TARGET_PLATFORM].kind = "Variants"
           /\ Len(output.returned) = 1
           /\ output.returned[1].package_name = a

----------------------------------------------------------------------------
(* Properties of version parsing *)

Parsed == output # NoValue /\ input.fn = "CudaVersion::new"

\* the '.'-separated parts of the text given to CudaVersion::new
Parts == split(input.text, ".")

\* a text of one or more decimal digits
IsNumber(text) ==
    /\ text # <<>>
    /\ \A i \in DOMAIN text : \E d \in 0..9 : text[i] = Digit(d)

\* a text without its leading '+'
Unsigned(text) == IF text # <<>> /\ text[1] = "+" THEN Tail(text) ELSE text

\* a number without its leading zeros ("0" for zero)
RECURSIVE Canonical(_)
Canonical(text) ==
    IF Len(text) > 1 /\ text[1] = Digit(0) THEN Canonical(Tail(text)) ELSE text

\* the largest u32, 4294967295, in decimal
MaxU32Text == <<"4", "2", "9", "4", "9", "6", "7", "2", "9", "5">>

\* the number fits in 32 bits
FitsU32(text) ==
    \/ Len(Canonical(text)) < Len(MaxU32Text)
    \/ /\ Len(Canonical(text)) = Len(MaxU32Text)
       /\ ~StrLess(MaxU32Text, Canonical(text))

\* a u32 of two halves in decimal, by long division
RECURSIVE DecimalOf(_)
DecimalOf(v) ==
    IF v.hi = 0 /\ v.lo < 10 THEN <<Digit(v.lo)>>
    ELSE LET mid == (v.hi % 10) * (2 ^ 16) + v.lo
         IN  DecimalOf([hi |-> v.hi \div 10, lo |-> mid \div 10]) \o <<Digit(mid % 10)>>

\* C24 as claimed: CudaVersion::new succeeds exactly on the texts of three
\* '.'-separated parts that are each a non-negative integer (a leading '+'
\* is taken either way); then major(), minor() and patch() are the three
\* numbers in order and as_str() is the text.
C24_ParsesThreeIntegers ==
    Parsed =>
        /\ (Len(Parts) = 3 /\ \A i \in 1..3 : IsNumber(Parts[i])) => output.returned.ok
        /\ output.returned.ok =>
               /\ Len(Parts) = 3
               /\ \A i \in 1..3 : IsNumber(Unsigned(Parts[i]))
               /\ DecimalOf(major(output.returned)) = Canonical(Unsigned(Parts[1]))
               /\ DecimalOf(minor(output.returned)) = Canonical(Unsigned(Parts[2]))
               /\ DecimalOf(patch(output.returned)) = Canonical(Unsigned(Parts[3]))
               /\ as_str(output.returned) = input.text

\* C24, amended: CudaVersion::new succeeds exactly on the texts of three
\* '.'-separated parts that are each one or more decimal digits, optionally
\* preceded by '+', of a number that fits in 32 bits; then major(), minor()
\* and patch() are the three numbers in order and as_str() is the text.
C24_ParsesThreeU32 ==
    Parsed =>
        /\ output.returned.ok <=>
               /\ Len(Parts) = 3
               /\ \A i \in 1..3 : IsNumber(Unsigned(Parts[i])) /\ FitsU32(Unsigned(Parts[i]))
        /\ output.returned.ok =>
               /\ DecimalOf(major(output.returned)) = Canonical(Unsigned(Parts[1]))
               /\ DecimalOf(minor(output.returned)) = Canonical(Unsigned(Parts[2]))
               /\ DecimalOf(patch(output.returned)) = Canonical(Unsigned(Parts[3]))
               /\ as_str(output.returned) = input.text

\* a text with the largest u32 as major, a minor with leading zeros and a
\* patch of 12 was parsed
C24_Witness ==
    /\ Parsed /\ output.returned.ok
    /\ major(output.returned) = [hi |-> 2 ^ 16 - 1, lo |-> 2 ^ 16 - 1]
    /\ Parts[2] = <<"0", "0", "7">> /\ minor(output.returned) = [hi |-> 0, lo |-> 7]
    /\ patch(output.returned) = [hi |-> 0, lo |-> 12]

----------------------------------------------------------------------------
(* Properties of checksum verification *)

Verified == output # NoValue /\ input.fn = "verify_checksum"

\* two texts that differ in nothing but the case of their letters
SameButCase(a, b) ==
    /\ Len(a) = Len(b)
    /\ \A i \in DOMAIN a : a[i] = b[i] \/ UpperOf(a[i]) = b[i] \/ a[i] = UpperOf(b[i])

\* text is digest, up to letter case, with white space (and nothing else)
\* added at its ends
SpellsDigest(text, digest) ==
    \E i \in 0..Len(text) : \E j \in i..Len(text) :
        /\ SameButCase(SubSeq(text, i + 1, j), digest)
        /\ \A k \in (1..i) \cup ((j + 1)..Len(text)) : text[k] \in WhiteSpace

\* C25: verification of a staged file that can be read passes exactly when
\* the expected text is the digest of the file up to letter case and
\* surrounding white space, and fails with a checksum mismatch otherwise.
C25_ChecksumUpToCaseAndSpace ==
    (Verified /\ input.file.exists) =>
        LET matches == SpellsDigest(input.expected_sha256, sha256_hex(input.file.content))
        IN  /\ output.returned.ok <=> matches
            /\ ~output.returned.ok => output.returned.kind = "ChecksumMismatch"

\* a digest written in upper case between blanks was accepted
C25_Witness ==
    /\ Verified /\ output.returned.ok
    /\ input.expected_sha256[1] = " "
    /\ input.expected_sha256[Len(input.expected_sha256)] = "\n"
    /\ \E i \in DOMAIN input.expected_sha256 : input.expected_sha256[i] = "F"

----------------------------------------------------------------------------
(* Further properties of the install pipeline *)

\* a download, verification or extraction that returned an error
IsTaskFailure(e) == e.op \in {"download", "verify", "extract"} /\ ~e.ok

\* C26: once a download, verification or extraction of a run has failed, the
\* run is in its failed state and every later call of the run is the removal
\* of that task's staged file or of the install directory: no call of a later
\* task is made, so the companion task is not downloaded after a primary
\* task failed.
C26_FailedIsTerminal ==
    \A r \in Runs : \A k \in 1..Len(trace[r]) :
        IsTaskFailure(trace[r][k]) =>
            /\ pc[r] = "failed"
            /\ \A j \in (k + 1)..Len(trace[r]) :
                   /\ trace[r][j].op \in {"remove_file", "remove_dir_all"}
                   /\ trace[r][j].task \in {0, trace[r][k].task}

\* a run with a companion task failed at its first primary task, and no call
\* was made for the companion package
C26_Witness ==
    \E r \in Runs :
        /\ pc[r] = "failed" /\ cudnn_task[r] # <<>> /\ Len(cuda_tasks[r]) = 2
        /\ \E k \in 1..Len(trace[r]) : IsTaskFailure(trace[r][k]) /\ trace[r][k].task = 1
        /\ \A k \in 1..Len(trace[r]) : trace[r][k].task <= 1

\* C27: a run whose release document yields no task for the platform fails
\* at that step with the no-packages error; up to then it has created
\* neither directory and has not started the companion search; and a run
\* that starts the companion search has at least one primary task.
C27_NoTasksFailsEarly ==
    [][\A r \in Runs :
          /\ (pc[r] = "resolve_metadata" /\ Steps(r)
                  /\ Did(r, RunEvent("resolve_metadata", TRUE))' /\ pc'[r] # "failed")
                 => cuda_tasks'[r] # <<>>
          /\ (pc[r] = "resolve_metadata" /\ result'[r].kind = "NoPackages") =>
                 /\ pc'[r] = "failed"
                 /\ installDir' = start_fs[r].installDir
                 /\ downloadsDir' = start_fs[r].downloadsDir
                 /\ \A k \in 1..Len(trace'[r]) :
                        trace'[r][k].op \in {"check_availability", "resolve_metadata"}
          /\ (pc[r] = "resolve_companion" /\ Steps(r)) => cuda_tasks[r] # <<>>]_vars

\* a run failed for want of packages, with no directory on disk
C27_Witness ==
    \E r \in Runs :
        /\ pc[r] = "failed" /\ result[r].kind = "NoPackages"
        /\ cuda_tasks[r] = <<>>
        /\ ~downloadsDir /\ ~installDir[version[r]].exists

\* C28 as claimed: two runs for different toolkit versions that are both
\* downloading, verifying or extracting never have the same staged archive
\* path, and a step of one never changes the staged file the other is
\* verifying or extracting.
C28_DistinctStagedPaths ==
    [][\A r1, r2 \in Runs :
          (r1 # r2 /\ version[r1] # version[r2] /\ InTask(r1) /\ InTask(r2)) =>
              /\ ArchivePath(CurrentTask(r1)) # ArchivePath(CurrentTask(r2))
              /\ (pc[r1] \in {"verify", "extract"} /\ Steps(r2)) =>
                     staged'[archive_name(CurrentTask(r1))]
                         = staged[archive_name(CurrentTask(r1))]]_vars

\* C29: when the companion search or the metadata fetch for the matched
\* companion release fails, the run fails at that step with that error; a
\* run that fails at that step has created neither directory and has
\* nothing to remove.
C29_CompanionErrorAborts ==
    [][\A r \in Runs :
          (pc[r] = "resolve_companion" /\ Steps(r)) =>
              /\ faults' # faults =>
                     /\ pc'[r] = "failed"
                     /\ result'[r].kind = IF cudnn_result'[r] = <<>> THEN "CompanionSearch"
                                          ELSE "Metadata"
              /\ pc'[r] = "failed" =>
                     /\ faults' # faults
                     /\ installDir' = start_fs[r].installDir
                     /\ downloadsDir' = start_fs[r].downloadsDir
                     /\ \A k \in 1..Len(trace'[r]) :
                            trace'[r][k].op \notin {"create_dirs", "remove_dir_all"}]_vars

\* a run found a companion release, could not fetch its document and failed
\* with no directory on disk
C29_Witness ==
    \E r \in Runs :
        /\ pc[r] = "failed" /\ result[r].kind = "Metadata"
        /\ cudnn_result[r] # <<>>
        /\ Did(r, RunEvent("resolve_companion", FALSE))
        /\ ~downloadsDir /\ ~installDir[version[r]].exists

\* C30: a loader that reads a parsable entry whose cached_at is later than
\* the clock serves it: the age is 0, not a negative or wrapped number, and
\* the entry is valid for every positive TTL.
C30_FutureEntryIsValid ==
    (ReadEntry(loaded) /\ FoundEntry(loaded)[1].cached_at > loaded.clock) =>
        LET entry == FoundEntry(loaded)[1]
        IN  /\ loaded.result = OkSome(Payload(loaded, entry))
            /\ saturating_sub(loaded.clock, entry.cached_at) = 0
            /\ \A ttl \in {1, 2, VERSION_LIST_TTL, METADATA_TTL} :
                   is_cache_valid(entry.cached_at, ttl, loaded.clock)

\* a metadata entry stamped one second ahead of the clock was read and served
C30_Witness ==
    /\ ReadEntry(loaded) /\ loaded.fn = "load_cached_metadata"
    /\ FoundEntry(loaded)[1].cached_at = loaded.clock + 1
    /\ loaded.result = OkSome(FoundEntry(loaded)[1].metadata)

====
